---- MODULE Spec2Model ----
(***************************************************************************)
(* A model of the operius knowledge base: the keyword intent classifier    *)
(* and the filtered searches of SearchAgent, the Kubernetes entity source, *)
(* the ingestion pipeline, the ChromaDB vector store wrapper, the GitHub   *)
(* repository adders and the chat front-end.                               *)
(*                                                                         *)
(* A Python string is a sequence of one-character strings, so that         *)
(* lower(), capitalize(), replace() and the substring test `in` are        *)
(* computed character by character.  Dictionary keys and fixed messages,   *)
(* which the code only writes, are TLA+ strings.  A Python dict is a       *)
(* function from its keys to its values, a list is a sequence.             *)
(***************************************************************************)
EXTENDS Integers, Sequences, FiniteSets, TLC

VARIABLES
    query,          \* SearchAgent.analyze_query_intent: the last query analysed
    intent,         \* ... and the analysis it returned (NoIntent before the first call)
    request,        \* SearchAgent: the last search called and its arguments
    store_calls,    \* SearchAgent: the vector_store.search calls of the last search
    response,       \* SearchAgent: the response the last search returned
    collection,     \* ChromaDB: the documents of the collection, one per id
    store_op,       \* ChromaVectorStore: the last operation, its arguments and outcome
    cluster,        \* Kubernetes: the resources the API served to the last ingestion
    k8s_fault,      \* Kubernetes/store: what failed during the last ingestion
    yielded,        \* KubernetesSource: the entities generate_entities yielded last
    batch_calls,    \* DataIngestionPipeline: the lists the last ingestion handed to add_entities_batch
    ingest_result,  \* DataIngestionPipeline: the result of the last ingestion
    gh_run,         \* GitHub adders: the last run, its inputs, ids and result
    ai_agent,       \* KubernetesChat: the LLM agent, NoAgent when there is none
    conversation_history,   \* KubernetesChat: the exchanges recorded
    chat,           \* KubernetesChat: the last call and its outcome
    repl,           \* KubernetesChat.run_interactive: the loop and its last turn
    formatted,      \* SearchAgent.format_search_results: the last call and its text
    created,        \* KubernetesSource: the entities made so far, each with its resource
    pipeline        \* DataIngestionPipeline: the last pipeline call and its result

intentVars == <<query, intent>>
searchVars == <<request, store_calls, response>>
storeVars == <<collection, store_op>>
ingestVars == <<cluster, k8s_fault, yielded, batch_calls, ingest_result>>
githubVars == <<gh_run>>
chatVars == <<ai_agent, conversation_history, chat, repl>>
formatVars == <<formatted>>
entityVars == <<created>>
pipelineVars == <<pipeline>>

vars == <<query, intent, request, store_calls, response, collection, store_op,
          cluster, k8s_fault, yielded, batch_calls, ingest_result, gh_run, ai_agent,
          conversation_history, chat, repl, formatted, created, pipeline>>

----------------------------------------------------------------------------
(* Python values *)

\* Python's None: a value no string equals.
None == <<"<None>">>

\* The truth value Python gives a string or None in `if x:`.
Truthy(x) == x # None /\ x # <<>>

\* The empty dict {}.
EmptyDict == [k \in {} |-> None]

\* d[k] = v on a dict.
DictSet(d, k, v) == [x \in (DOMAIN d) \cup {k} |-> IF x = k THEN v ELSE d[x]]

\* d.get(k), None when the key is absent.
DictGet(d, k) == IF k \in DOMAIN d THEN d[k] ELSE None

\* d.get(k, default)
DictGetOr(d, k, default) == IF k \in DOMAIN d THEN d[k] ELSE default

\* d.update(e): the keys of e overwrite those of d.
DictUpdate(d, e) ==
    [x \in (DOMAIN d) \cup (DOMAIN e) |-> IF x \in DOMAIN e THEN e[x] ELSE d[x]]

\* None where the code expects a dict.
NoneDict == [k \in {"<None>"} |-> None]

\* The truth value Python gives a dict or None in `if d:`.
DictTruthy(d) == d # NoneDict /\ DOMAIN d # {}

\* The ASCII letters, upper and lower case at the same index.
UpperLetters ==
    << "A","B","C","D","E","F","G","H","I","J","K","L","M",
       "N","O","P","Q","R","S","T","U","V","W","X","Y","Z" >>

LowerLetters ==
    << "a","b","c","d","e","f","g","h","i","j","k","l","m",
       "n","o","p","q","r","s","t","u","v","w","x","y","z" >>

LowerChar(c) ==
    IF \E i \in 1..Len(UpperLetters) : UpperLetters[i] = c
    THEN LowerLetters[CHOOSE i \in 1..Len(UpperLetters) : UpperLetters[i] = c]
    ELSE c

UpperChar(c) ==
    IF \E i \in 1..Len(LowerLetters) : LowerLetters[i] = c
    THEN UpperLetters[CHOOSE i \in 1..Len(LowerLetters) : LowerLetters[i] = c]
    ELSE c

\* str.lower()
Lower(s) == [i \in 1..Len(s) |-> LowerChar(s[i])]

\* str.capitalize(): the first character upper-cased, the rest lower-cased.
Capitalize(s) ==
    IF s = <<>> THEN s ELSE <<UpperChar(s[1])>> \o Lower(Tail(s))

\* The substring test `sub in s`.
Contains(sub, s) ==
    \E i \in 0..(Len(s) - Len(sub)) : SubSeq(s, i + 1, i + Len(sub)) = sub

\* The elements of a sequence.
Range(s) == {s[i] : i \in 1..Len(s)}

\* `for x in list: if x in text: ... break`: the first element of list that
\* occurs in text, None when there is none.
FirstContained(list, text) ==
    LET hits == {i \in 1..Len(list) : Contains(list[i], text)}
    IN  IF hits = {} THEN None
        ELSE list[CHOOSE i \in hits : \A j \in hits : i <= j]

----------------------------------------------------------------------------
(* SearchAgent.analyze_query_intent *)

\* The source tags.
Kubernetes == <<"k","u","b","e","r","n","e","t","e","s">>
Github == <<"g","i","t","h","u","b">>

k8s_keywords ==
    << <<"p","o","d">>,
       <<"s","e","r","v","i","c","e">>,
       <<"d","e","p","l","o","y","m","e","n","t">>,
       <<"n","a","m","e","s","p","a","c","e">>,
       <<"i","n","g","r","e","s","s">>,
       <<"c","o","n","f","i","g","m","a","p">>,
       <<"s","e","c","r","e","t">> >>

github_keywords ==
    << <<"c","o","d","e">>,
       <<"f","i","l","e">>,
       <<"r","e","p","o","s","i","t","o","r","y">>,
       <<"r","e","p","o">>,
       <<"f","u","n","c","t","i","o","n">>,
       <<"c","l","a","s","s">>,
       <<"i","m","p","o","r","t">> >>

languages ==
    << <<"p","y","t","h","o","n">>,
       <<"j","a","v","a","s","c","r","i","p","t">>,
       <<"j","a","v","a">>,
       <<"g","o">>,
       <<"r","u","s","t">>,
       <<"t","y","p","e","s","c","r","i","p","t">>,
       <<"y","a","m","l">>,
       <<"j","s","o","n">> >>

SuggestGeneric == "Try adding keywords like 'kubernetes', 'pod', 'code', or 'file'"
SuggestKubernetes == "Use search_kubernetes() for better Kubernetes-specific results"
SuggestGithub == "Use search_github() for better code search results"

\* any(keyword in query_lower for keyword in keywords)
AnyKeyword(keywords, query_lower) ==
    \E i \in 1..Len(keywords) : Contains(keywords[i], query_lower)

\* A Kubernetes block whose keyword loop lacks the break: the last keyword
\* of the list found in the query gives the kind.
DetectKubernetes_NoBreak(a, query_lower) ==
    LET hits == {i \in 1..Len(k8s_keywords) : Contains(k8s_keywords[i], query_lower)}
        last == CHOOSE i \in hits : \A j \in hits : j <= i
    IN  IF hits # {}
        THEN [a EXCEPT
                !.detected_intents = Append(@, Kubernetes),
                !.suggested_filters =
                    DictSet(DictSet(@, "source", Kubernetes),
                            "kind", Capitalize(k8s_keywords[last]))]
        ELSE a

\* The Kubernetes block: intent, source filter, kind of the first keyword found.
DetectKubernetes(a, query_lower) ==
    IF AnyKeyword(k8s_keywords, query_lower)
    THEN [a EXCEPT
            !.detected_intents = Append(@, Kubernetes),
            !.suggested_filters =
                DictSet(DictSet(@, "source", Kubernetes),
                        "kind", Capitalize(FirstContained(k8s_keywords, query_lower)))]
    ELSE a

\* A GitHub block written as the elif of the Kubernetes one: skipped once
\* the Kubernetes intent is detected.
DetectGithub_Exclusive(a, query_lower) ==
    IF a.detected_intents = <<>> /\ AnyKeyword(github_keywords, query_lower)
    THEN [a EXCEPT
            !.detected_intents = Append(@, Github),
            !.suggested_filters = DictSet(@, "source", Github)]
    ELSE a

\* The GitHub block: intent and source filter (assigned after the Kubernetes one).
DetectGithub(a, query_lower) ==
    IF AnyKeyword(github_keywords, query_lower)
    THEN [a EXCEPT
            !.detected_intents = Append(@, Github),
            !.suggested_filters = DictSet(@, "source", Github)]
    ELSE a

\* A language block nested in the GitHub block: no language filter unless
\* the GitHub intent is detected.
DetectLanguage_OnlyGithub(a, query_lower) ==
    IF Github \in Range(a.detected_intents) /\ AnyKeyword(languages, query_lower)
    THEN [a EXCEPT
            !.suggested_filters =
                DictSet(@, "language", FirstContained(languages, query_lower))]
    ELSE a

\* The language block: the first language name found, whatever the intents.
DetectLanguage(a, query_lower) ==
    IF AnyKeyword(languages, query_lower)
    THEN [a EXCEPT
            !.suggested_filters =
                DictSet(@, "language", FirstContained(languages, query_lower))]
    ELSE a

\* A suggestions step that has lost the generic fallback.
AddSuggestions_NoGeneric(a) ==
    LET s2 == IF Kubernetes \in Range(a.detected_intents)
              THEN <<SuggestKubernetes>> ELSE <<>>
        s3 == IF Github \in Range(a.detected_intents)
              THEN <<SuggestGithub>> ELSE <<>>
    IN  [a EXCEPT !.search_suggestions = @ \o s2 \o s3]

\* The suggestions: the generic one without intents, else one per intent.
AddSuggestions(a) ==
    LET s1 == IF a.detected_intents = <<>> THEN <<SuggestGeneric>> ELSE <<>>
        s2 == IF Kubernetes \in Range(a.detected_intents)
              THEN <<SuggestKubernetes>> ELSE <<>>
        s3 == IF Github \in Range(a.detected_intents)
              THEN <<SuggestGithub>> ELSE <<>>
    IN  [a EXCEPT !.search_suggestions = @ \o s1 \o s2 \o s3]

analyze_query_intent(q) ==
    LET query_lower == Lower(q)
        a0 == [query |-> q,
               detected_intents |-> <<>>,
               suggested_filters |-> EmptyDict,
               search_suggestions |-> <<>>]
    IN  AddSuggestions(
            DetectLanguage(DetectGithub(DetectKubernetes(a0, query_lower),
                                        query_lower),
                           query_lower))

----------------------------------------------------------------------------
(* Bounds and inputs of the classifier *)

\* A query is the concatenation of at most MaxFragments fragments.
MaxFragments == 3

\* Pieces of queries: keywords in several cases, halves of keywords that
\* only match once joined, and text that matches nothing.
Fragments ==
    { <<" ">>,
      <<"x">>,
      <<"P","o","d","s">>,
      <<"s","e","r","v","i","c","e">>,
      <<"S","E","C","R","E","T">>,
      <<"c","o","n","f","i","g">>,
      <<"m","a","p">>,
      <<"c","o","d","e">>,
      <<"R","e","p","o">>,
      <<"j","a","v","a">>,
      <<"s","c","r","i","p","t">>,
      <<"g","o">> }

RECURSIVE QueriesOf(_)
QueriesOf(n) ==
    IF n = 0 THEN {<<>>}
    ELSE LET shorter == QueriesOf(n - 1)
         IN  shorter \cup {q \o f : q \in shorter, f \in Fragments}

Queries == QueriesOf(MaxFragments)

\* No analysis made yet.
NoIntent == [query |-> <<>>,
             detected_intents |-> <<None>>,
             suggested_filters |-> EmptyDict,
             search_suggestions |-> <<>>]

----------------------------------------------------------------------------
(* The classifier as a state machine: the query is the input, the step is *)
(* the call on it                                                          *)

InitIntent ==
    /\ query = <<>>
    /\ intent = NoIntent

\* The caller holds any query of the bounded set.
InitQueries ==
    /\ query \in Queries
    /\ intent = NoIntent

AnalyzeQueryIntent ==
    /\ intent' = analyze_query_intent(query)
    /\ UNCHANGED <<query, searchVars, storeVars, ingestVars, githubVars, chatVars,
                 formatVars, entityVars, pipelineVars>>

----------------------------------------------------------------------------
(* Claims about the classifier *)

Analysed == intent # NoIntent

\* C1: every query whose lowercased form contains a Kubernetes keyword,
\* whatever else it contains, gets "kubernetes" among detected_intents and
\* suggested_filters["source"] = "kubernetes".
C1_KubernetesKeywordGivesKubernetesSource ==
    (Analysed /\ AnyKeyword(k8s_keywords, Lower(query)))
        => /\ Kubernetes \in Range(intent.detected_intents)
           /\ DictGet(intent.suggested_filters, "source") = Kubernetes

\* The query as the classifier reads it.
QueryLower == Lower(query)

HasKubernetesKeyword == AnyKeyword(k8s_keywords, QueryLower)
HasGithubKeyword == AnyKeyword(github_keywords, QueryLower)

\* The index in a list of the first entry that occurs in the lowercased
\* query, 0 when none does.
FirstIndexIn(list) ==
    LET hits == {i \in 1..Len(list) : Contains(list[i], QueryLower)}
    IN  IF hits = {} THEN 0 ELSE CHOOSE i \in hits : \A j \in hits : i <= j

\* C11: every query holding both a Kubernetes keyword and a GitHub keyword
\* gets both intents, kubernetes first, and both source-specific suggestions
\* without the generic one.
C11_MixedQueryDetectsBothIntents ==
    (Analysed /\ HasKubernetesKeyword /\ HasGithubKeyword)
        => /\ intent.detected_intents = <<Kubernetes, Github>>
           /\ SuggestKubernetes \in Range(intent.search_suggestions)
           /\ SuggestGithub \in Range(intent.search_suggestions)
           /\ SuggestGeneric \notin Range(intent.search_suggestions)

\* C11 witness: "codePods" has been analysed.
C11_Witness ==
    /\ Analysed
    /\ query = <<"c","o","d","e","P","o","d","s">>
    /\ Len(intent.detected_intents) = 2

\* C12: every query, the empty one included, that holds neither a Kubernetes
\* nor a GitHub keyword gets no intent and exactly the one generic
\* suggestion; the analysis of every query returns a result.
C12_NoKeywordGivesGenericSuggestion ==
    Analysed =>
        /\ intent.query = query
        /\ (~HasKubernetesKeyword /\ ~HasGithubKeyword)
                => /\ intent.detected_intents = <<>>
                   /\ intent.search_suggestions = <<SuggestGeneric>>

\* C12 witness: "config x" (half a keyword and text) has been analysed.
C12_Witness ==
    /\ Analysed
    /\ query = <<"c","o","n","f","i","g"," ","x">>
    /\ intent.detected_intents = <<>>

\* C13: the kind filter is the capitalized keyword that comes first in the
\* list order among those the query holds, wherever they stand in the query
\* and whatever their length; it is set exactly when the kubernetes intent
\* is detected; no namespace filter is ever set.
C13_KindIsFirstKeywordInListOrder ==
    Analysed =>
        /\ HasKubernetesKeyword
                => DictGet(intent.suggested_filters, "kind")
                        = Capitalize(k8s_keywords[FirstIndexIn(k8s_keywords)])
        /\ ("kind" \in DOMAIN intent.suggested_filters)
                <=> (Kubernetes \in Range(intent.detected_intents))
        /\ "namespace" \notin DOMAIN intent.suggested_filters

\* C13 witness: "servicePods" has been analysed: service stands first in the
\* query and is the longer keyword, pod is first in the list.
C13_Witness ==
    /\ Analysed
    /\ query = <<"s","e","r","v","i","c","e","P","o","d","s">>
    /\ intent.suggested_filters["kind"] = <<"P","o","d">>

\* C14: a query holding a language name gets the language filter of the
\* first name of the list it holds, with or without an intent; with a GitHub
\* keyword and no Kubernetes keyword the filters are exactly
\* {source: github, language: L}.
C14_LanguageIndependentOfSource ==
    (Analysed /\ AnyKeyword(languages, QueryLower)) =>
        LET L == languages[FirstIndexIn(languages)]
        IN  /\ DictGet(intent.suggested_filters, "language") = L
            /\ (HasGithubKeyword /\ ~HasKubernetesKeyword)
                    => intent.suggested_filters
                          = DictSet(DictSet(EmptyDict, "source", Github), "language", L)

\* C14 witness: "javascript" alone has been analysed: no intent, and the
\* language is javascript although java is found as well.
C14_Witness ==
    /\ Analysed
    /\ query = <<"j","a","v","a","s","c","r","i","p","t">>
    /\ intent.detected_intents = <<>>
    /\ DictGet(intent.suggested_filters, "language")
            = <<"j","a","v","a","s","c","r","i","p","t">>

----------------------------------------------------------------------------
(* SearchAgent.search, search_kubernetes, search_github *)

\* One vector_store.search call as the agent issues it.
StoreCall(q, n, f) == [query |-> q, n_results |-> n, filters |-> f]

\* A search that applies source_filter after additional_filters, so that the
\* source_filter argument wins over a "source" key of additional_filters.
SearchFilters_SourceWins(source_filter, additional_filters) ==
    LET f0 == IF DictTruthy(additional_filters)
              THEN DictUpdate(EmptyDict, additional_filters) ELSE EmptyDict
    IN  IF Truthy(source_filter) THEN DictSet(f0, "source", source_filter) ELSE f0

\* search: source_filter and additional_filters merged into one flat map,
\* None handed to the store when the map is empty.
SearchFilters(source_filter, additional_filters) ==
    LET f0 == EmptyDict
        f1 == IF Truthy(source_filter) THEN DictSet(f0, "source", source_filter) ELSE f0
    IN  IF DictTruthy(additional_filters) THEN DictUpdate(f1, additional_filters) ELSE f1

SearchResponse(q, filters, results) ==
    [query |-> q,
     timestamp |-> "now",
     total_results |-> Len(results),
     filters_applied |-> filters,
     results |-> results]

\* A search_kubernetes that builds one flat map of all the conditions.
KubernetesFilters_Flat(resource_kind, namespace) ==
    LET f0 == DictSet(EmptyDict, "source", Kubernetes)
        f1 == IF Truthy(resource_kind) THEN DictSet(f0, "kind", resource_kind) ELSE f0
    IN  IF Truthy(namespace) THEN DictSet(f1, "namespace", namespace) ELSE f1

\* A search_kubernetes that wraps even the lone source clause in "$and".
KubernetesFilters_AlwaysAnd(resource_kind, namespace) ==
    LET c1 == IF Truthy(resource_kind)
              THEN <<DictSet(EmptyDict, "kind", resource_kind)>> ELSE <<>>
        c2 == IF Truthy(namespace)
              THEN <<DictSet(EmptyDict, "namespace", namespace)>> ELSE <<>>
    IN  DictSet(EmptyDict, "$and",
                <<DictSet(EmptyDict, "source", Kubernetes)>> \o c1 \o c2)

\* search_kubernetes: {source: kubernetes}, wrapped with the kind and
\* namespace clauses into {"$and": [...]} once there is one of them.
KubernetesFilters(resource_kind, namespace) ==
    LET filters == DictSet(EmptyDict, "source", Kubernetes)
        c1 == IF Truthy(resource_kind)
              THEN <<DictSet(EmptyDict, "kind", resource_kind)>> ELSE <<>>
        c2 == IF Truthy(namespace)
              THEN <<DictSet(EmptyDict, "namespace", namespace)>> ELSE <<>>
        additional_conditions == c1 \o c2
    IN  IF additional_conditions # <<>>
        THEN DictSet(EmptyDict, "$and", <<filters>> \o additional_conditions)
        ELSE filters

KubernetesResponse(q, resource_kind, namespace, results) ==
    [query |-> q,
     search_type |-> Kubernetes,
     resource_kind |-> resource_kind,
     namespace |-> namespace,
     total_results |-> Len(results),
     results |-> results]

\* A search_github built like search_kubernetes: the conditions wrapped in
\* "$and" once there is one besides the source.
GithubFilters_And(repo_name, language) ==
    LET filters == DictSet(EmptyDict, "source", Github)
        c1 == IF Truthy(repo_name)
              THEN <<DictSet(EmptyDict, "repo_name", repo_name)>> ELSE <<>>
        c2 == IF Truthy(language)
              THEN <<DictSet(EmptyDict, "language", language)>> ELSE <<>>
    IN  IF c1 \o c2 # <<>>
        THEN DictSet(EmptyDict, "$and", <<filters>> \o c1 \o c2)
        ELSE filters

\* search_github: a flat map, source first, repo_name and language when given.
GithubFilters(repo_name, language) ==
    LET f0 == DictSet(EmptyDict, "source", Github)
        f1 == IF Truthy(repo_name) THEN DictSet(f0, "repo_name", repo_name) ELSE f0
    IN  IF Truthy(language) THEN DictSet(f1, "language", language) ELSE f1

GithubResponse(q, repo_name, language, results) ==
    [query |-> q,
     search_type |-> Github,
     repo_name |-> repo_name,
     language |-> language,
     total_results |-> Len(results),
     results |-> results]

----------------------------------------------------------------------------
(* Bounds and inputs of the searches *)

\* The store returns at most MaxHits results to one search.
MaxHits == 4

KindPod == <<"P","o","d">>
KindService == <<"S","e","r","v","i","c","e">>
NsDefault == <<"d","e","f","a","u","l","t">>
NsKubeSystem == <<"k","u","b","e","-","s","y","s","t","e","m">>
LangPython == <<"p","y","t","h","o","n">>
RepoName == <<"o","/","r">>

SearchQueries == { <<"t","e","s","t">>, <<"p","o","d","s">> }
MaxResultsArgs == {1, 5, 10}
KindArgs == {None, <<>>, KindPod, KindService}
NamespaceArgs == {None, <<>>, NsDefault, NsKubeSystem}
SourceArgs == {None, <<>>, Kubernetes, Github}
AdditionalArgs ==
    { NoneDict,
      EmptyDict,
      DictSet(EmptyDict, "namespace", NsDefault),
      DictSet(EmptyDict, "source", Github) }
RepoArgs == {None, <<>>, RepoName}
LanguageArgs == {None, <<>>, LangPython}

\* What the store may answer to a search for at most n results: the
\* embedding model and the index are outside this repository, so any list
\* of at most n stored hits, nearest first.  A distance is a number of
\* ten-thousandths.
HitPod ==
    [source |-> Kubernetes, name |-> <<"a">>, kind |-> KindPod, namespace |-> NsDefault]
HitNamespace ==
    [source |-> Kubernetes, name |-> NsDefault,
     kind |-> <<"N","a","m","e","s","p","a","c","e">>,
     namespace |-> <<"c","l","u","s","t","e","r","-","w","i","d","e">>]
HitFile ==
    [source |-> Github, repo_name |-> RepoName, file_path |-> <<"f",".","p","y">>]
HitOther == [name |-> <<"z">>, language |-> LangPython]

HitMetadata(i) ==
    CASE i % 4 = 1 -> HitPod
      [] i % 4 = 2 -> HitNamespace
      [] i % 4 = 3 -> HitFile
      [] OTHER -> HitOther

\* One result as ChromaVectorStore.search formats it.
Hit(i) ==
    [document |-> <<"d">>,
     metadata |-> HitMetadata(i),
     distance |-> 1234 * i,
     similarity |-> 10000 - 1234 * i]

RECURSIVE HitList(_)
HitList(k) == IF k = 0 THEN <<>> ELSE Append(HitList(k - 1), Hit(k))

StoreAnswers(n) ==
    {HitList(k) : k \in 0..(IF n < MaxHits THEN n ELSE MaxHits)}

\* No search made yet.
NoResponse == [query |-> None]

----------------------------------------------------------------------------
(* The searches as a state machine: one call per step *)

InitSearch ==
    /\ request = [op |-> "none"]
    /\ store_calls = <<>>
    /\ response = NoResponse

Search ==
    \E q \in SearchQueries, n \in MaxResultsArgs,
       source_filter \in SourceArgs, additional_filters \in AdditionalArgs :
        LET filters == SearchFilters(source_filter, additional_filters)
            passed == IF DictTruthy(filters) THEN filters ELSE NoneDict
        IN  \E results \in StoreAnswers(n) :
                /\ request' = [op |-> "search", query |-> q, max_results |-> n,
                                source_filter |-> source_filter,
                                additional_filters |-> additional_filters]
                /\ store_calls' = <<StoreCall(q, n, passed)>>
                /\ response' = SearchResponse(q, filters, results)
                /\ UNCHANGED <<intentVars, storeVars, ingestVars, githubVars, chatVars,
                 formatVars, entityVars, pipelineVars>>

SearchKubernetes ==
    \E q \in SearchQueries, n \in MaxResultsArgs,
       resource_kind \in KindArgs, namespace \in NamespaceArgs :
        LET filters == KubernetesFilters(resource_kind, namespace)
        IN  \E results \in StoreAnswers(n) :
                /\ request' = [op |-> "search_kubernetes", query |-> q,
                                max_results |-> n, resource_kind |-> resource_kind,
                                namespace |-> namespace]
                /\ store_calls' = <<StoreCall(q, n, filters)>>
                /\ response' = KubernetesResponse(q, resource_kind, namespace, results)
                /\ UNCHANGED <<intentVars, storeVars, ingestVars, githubVars, chatVars,
                 formatVars, entityVars, pipelineVars>>

SearchGithub ==
    \E q \in SearchQueries, n \in MaxResultsArgs,
       repo_name \in RepoArgs, language \in LanguageArgs :
        LET filters == GithubFilters(repo_name, language)
        IN  \E results \in StoreAnswers(n) :
                /\ request' = [op |-> "search_github", query |-> q,
                                max_results |-> n, repo_name |-> repo_name,
                                language |-> language]
                /\ store_calls' = <<StoreCall(q, n, filters)>>
                /\ response' = GithubResponse(q, repo_name, language, results)
                /\ UNCHANGED <<intentVars, storeVars, ingestVars, githubVars, chatVars,
                 formatVars, entityVars, pipelineVars>>

----------------------------------------------------------------------------
(* Claims about the searches *)

\* The last operation was search_kubernetes.
IsKubernetesSearch == request.op = "search_kubernetes"

FlatKubernetes == DictSet(EmptyDict, "source", Kubernetes)

\* An argument counts as supplied when it is a non-empty string: the code
\* tests `if resource_kind:` and `if namespace:`.
Supplied(x) == x # None /\ x # <<>>

FlatKubernetesKindNamespace(K, N) ==
    DictSet(DictSet(FlatKubernetes, "kind", K), "namespace", N)

\* Both a kind and a namespace were given to search_kubernetes.
KindAndNamespaceGiven ==
    IsKubernetesSearch /\ Supplied(request.resource_kind) /\ Supplied(request.namespace)

\* The call and the echo that C3 describes, the filter apart.
C3_CallAndEcho ==
    /\ Len(store_calls) = 1
    /\ store_calls[1].query = request.query
    /\ store_calls[1].n_results = request.max_results
    /\ response.query = request.query
    /\ response.resource_kind = request.resource_kind
    /\ response.namespace = request.namespace
    /\ response.total_results = Len(response.results)

IsGeneralSearch == request.op = "search"

\* The keys additional_filters contributes: none when it is None.
AdditionalKeys(additional_filters) ==
    IF additional_filters = NoneDict THEN {} ELSE DOMAIN additional_filters

\* C15: search merges source_filter and additional_filters into one flat
\* map in which a "source" key of additional_filters overwrites the
\* source_filter value; filters_applied is that map; the store is called
\* once, with that map, or with None when the map is empty.
C15_GeneralSearchMergesFilters ==
    IsGeneralSearch =>
        LET sf == request.source_filter
            af == request.additional_filters
            fromSource == IF Supplied(sf) THEN {"source"} ELSE {}
            merged == [k \in fromSource \cup AdditionalKeys(af) |->
                          IF k \in AdditionalKeys(af) THEN af[k] ELSE sf]
        IN  /\ response.filters_applied = merged
            /\ "$and" \notin DOMAIN merged
            /\ Len(store_calls) = 1
            /\ store_calls[1].query = request.query
            /\ store_calls[1].n_results = request.max_results
            /\ store_calls[1].filters =
                    IF DOMAIN merged = {} THEN NoneDict ELSE merged

\* C15 witness: a search with source_filter = kubernetes and
\* additional_filters = {source: github} was made on a github filter.
C15_Witness ==
    /\ IsGeneralSearch
    /\ request.source_filter = Kubernetes
    /\ "source" \in AdditionalKeys(request.additional_filters)
    /\ response.filters_applied["source"] = Github
    /\ store_calls[1].filters["source"] = Github

\* The last operation was search_github.
IsGithubSearch == request.op = "search_github"

\* C16: search_github calls the store once, with n_results = max_results
\* and a flat map, never the AND form, holding source = github, repo_name
\* exactly when a non-empty repo_name is given and language exactly when a
\* non-empty language is given.
C16_GithubFilterIsFlat ==
    IsGithubSearch =>
        LET R == request.repo_name
            L == request.language
            f == store_calls[1].filters
        IN  /\ Len(store_calls) = 1
            /\ store_calls[1].query = request.query
            /\ store_calls[1].n_results = request.max_results
            /\ DOMAIN f = {"source"}
                    \cup (IF Supplied(R) THEN {"repo_name"} ELSE {})
                    \cup (IF Supplied(L) THEN {"language"} ELSE {})
            /\ f["source"] = Github
            /\ Supplied(R) => f["repo_name"] = R
            /\ Supplied(L) => f["language"] = L

AllGithubKeys == {"source", "repo_name", "language"}

\* C16 witness: a GitHub search with both a repository and a language.
C16_Witness ==
    /\ IsGithubSearch
    /\ request.repo_name = RepoName
    /\ request.language = LangPython
    /\ DOMAIN store_calls[1].filters = AllGithubKeys

----------------------------------------------------------------------------
(* KubernetesSource: the entities made of the cluster's resources *)

\* A resource the API serves is a record [kind, name, namespace, labels,
\* data]: namespace is None for a cluster-scoped resource, data is the
\* key/value map of a Secret or ConfigMap and NoneDict when there is none.

K8sPrefix == <<"k","8","s",":","/","/">>
ClusterWide == <<"c","l","u","s","t","e","r","-","w","i","d","e">>
Redacted == <<"[","R","E","D","A","C","T","E","D","]">>

KindNamespace == <<"N","a","m","e","s","p","a","c","e">>
KindDeployment == <<"D","e","p","l","o","y","m","e","n","t">>
KindConfigMap == <<"C","o","n","f","i","g","M","a","p">>
KindSecret == <<"S","e","c","r","e","t">>
KindIngress == <<"I","n","g","r","e","s","s">>

\* api_client.sanitize_for_serialization(obj): the resource as a dict, the
\* attributes that are None left out.
SanitizeForSerialization(obj) ==
    LET meta == IF obj.namespace = None
                THEN [name |-> obj.name, labels |-> obj.labels]
                ELSE [name |-> obj.name, namespace |-> obj.namespace,
                      labels |-> obj.labels]
        d0 == DictSet(EmptyDict, "metadata", meta)
    IN  IF obj.data # NoneDict THEN DictSet(d0, "data", obj.data) ELSE d0

\* json.dumps(d, indent=2, default=str): the JSON text of d.  A content is
\* either such a text or plain characters, [text |-> chars].
JsonDumps(d) == [json |-> d]

\* The truth value of a content in `if entity.content`: the empty string is
\* false, a JSON text never empty.
ContentTruthy(c) == c # [text |-> <<>>]

\* An entity whose id leaves the namespace out.
CreateEntityFromK8sObject_NoNamespace(obj, kind) ==
    LET namespace == IF Truthy(obj.namespace) THEN obj.namespace ELSE ClusterWide
    IN  [entity_id |-> K8sPrefix \o Lower(kind) \o <<"/">> \o obj.name,
         source_name |-> Kubernetes,
         name |-> obj.name,
         namespace |-> namespace,
         kind |-> kind,
         labels |-> obj.labels,
         content |-> JsonDumps(SanitizeForSerialization(obj))]

\* _create_entity_from_k8s_object(obj, kind)
CreateEntityFromK8sObject(obj, kind) ==
    LET namespace == IF Truthy(obj.namespace) THEN obj.namespace ELSE ClusterWide
    IN  [entity_id |-> K8sPrefix \o namespace \o <<"/">> \o Lower(kind)
                                 \o <<"/">> \o obj.name,
         source_name |-> Kubernetes,
         name |-> obj.name,
         namespace |-> namespace,
         kind |-> kind,
         labels |-> obj.labels,
         content |-> JsonDumps(SanitizeForSerialization(obj))]

\* The copy of a Secret that get_secrets serialises: every value under
\* "data" replaced by the placeholder.
RedactSecret(secret_copy) ==
    IF "data" \in DOMAIN secret_copy
    THEN DictSet(secret_copy, "data",
                 [k \in DOMAIN secret_copy["data"] |-> Redacted])
    ELSE secret_copy

\* A get_secrets that yields the entity as built, its content not overwritten.
SecretEntity_NotOverwritten(secret) ==
    CreateEntityFromK8sObject(secret, KindSecret)

\* The entity get_secrets yields for one Secret: built as for any resource,
\* its content then overwritten with the redacted copy.
SecretEntity(secret) ==
    [CreateEntityFromK8sObject(secret, KindSecret) EXCEPT
        !.content = JsonDumps(RedactSecret(SanitizeForSerialization(secret)))]

\* The entity one of the get_* generators yields for a resource.
EntityOf(obj, kind) ==
    IF kind = KindSecret THEN SecretEntity(obj)
    ELSE CreateEntityFromK8sObject(obj, kind)

\* The order in which generate_entities runs the generators.
resource_generators ==
    << KindNamespace, KindPod, KindService, KindDeployment,
       KindConfigMap, KindSecret, KindIngress >>

\* A generator's listing call either answers, raises ApiException (the API
\* answered with an error status) or raises another exception (no answer:
\* connection refused, timeout).
ListingOutcomes == {"ok", "ApiException", "error"}

\* The entities of the resources of one kind, in the order listed.
ItemsOfKind(items, kind) ==
    LET OfKind(x) == x.kind = kind
        listed == SelectSeq(items, OfKind)
    IN  [i \in 1..Len(listed) |-> EntityOf(listed[i], kind)]

\* One get_* generator: the entities of the resources listed; nothing at all
\* after an ApiException, which it prints and swallows.
GetResources(items, kind, outcome) ==
    IF outcome = "ok" THEN ItemsOfKind(items, kind) ELSE <<>>

\* generate_entities: initialize(), then the generators one after another.
\* listing maps each kind to the outcome of its listing call.  The result
\* is what the consumer gets: the entities in order, or the exception
\* (ConnectionError of initialize, or the first non-API error) in place of
\* them.
NothingMore == [raised |-> FALSE, entities |-> <<>>]
GeneratorRaised == [raised |-> TRUE, entities |-> <<>>]

RECURSIVE GenerateFrom(_, _, _)
GenerateFrom(i, items, listing) ==
    IF i > Len(resource_generators) THEN NothingMore
    ELSE LET kind == resource_generators[i]
         IN  IF listing[kind] = "error"
             THEN GeneratorRaised
             ELSE LET rest == GenerateFrom(i + 1, items, listing)
                  IN  [raised |-> rest.raised,
                       entities |-> GetResources(items, kind, listing[kind])
                                        \o rest.entities]

generate_entities(items, init_ok, listing) ==
    IF ~init_ok THEN GeneratorRaised
    ELSE GenerateFrom(1, items, listing)

----------------------------------------------------------------------------
(* Bounds and inputs of the entity construction *)

\* The entities made in one run of the model.
MaxCreated == 2

\* Names the API accepts (DNS labels: lower-case letters, digits, "-"),
\* among them names that read like parts of an entity id.
PodName == <<"p","o","d">>
ResourceNames == { <<"a">>, PodName }
NamespaceNames == { <<"a">>, ClusterWide }

\* A resource of a kind, as its get_* generator receives it from the API.
Resource(kind, name, namespace) ==
    [kind |-> kind, name |-> name, namespace |-> namespace,
     labels |-> EmptyDict, data |-> NoneDict]

\* What the API serves: a Namespace is cluster-scoped and has no namespace
\* of its own (None, or the empty string), a resource of the other six kinds
\* lives in a namespace.
NoNamespace == {None, <<>>}

Resources ==
    {Resource(KindNamespace, n, ns) : n \in ResourceNames, ns \in NoNamespace}
    \cup {Resource(k, n, ns) : k \in Range(resource_generators) \ {KindNamespace},
                               n \in ResourceNames, ns \in NamespaceNames}

----------------------------------------------------------------------------
(* The entity construction as a state machine: one entity per step *)

InitEntity ==
    created = <<>>

\* One resource goes through its generator and becomes an entity.
CreateEntity ==
    \E obj \in Resources :
        /\ Len(created) < MaxCreated
        /\ created' = Append(created, [obj |-> obj, entity |-> EntityOf(obj, obj.kind)])
        /\ UNCHANGED <<intentVars, searchVars, storeVars, ingestVars, githubVars,
                       chatVars, formatVars, pipelineVars>>

----------------------------------------------------------------------------
(* Claims about the entity construction *)

\* The seven kinds in lower case, written out.
LowerKind(kind) ==
    CASE kind = KindNamespace -> <<"n","a","m","e","s","p","a","c","e">>
      [] kind = KindPod -> <<"p","o","d">>
      [] kind = KindService -> <<"s","e","r","v","i","c","e">>
      [] kind = KindDeployment -> <<"d","e","p","l","o","y","m","e","n","t">>
      [] kind = KindConfigMap -> <<"c","o","n","f","i","g","m","a","p">>
      [] kind = KindSecret -> <<"s","e","c","r","e","t">>
      [] kind = KindIngress -> <<"i","n","g","r","e","s","s">>

\* The namespace part of a resource's id.
IdNamespace(obj) == IF obj.namespace \in NoNamespace THEN ClusterWide ELSE obj.namespace

\* Two resources with the same (namespace, kind, name), having no namespace
\* being one value of the namespace.
SameTriple(o1, o2) ==
    /\ o1.kind = o2.kind
    /\ o1.name = o2.name
    /\ \/ o1.namespace = o2.namespace
       \/ (o1.namespace \in NoNamespace /\ o2.namespace \in NoNamespace)

\* C19: the entity_id of every Kubernetes entity is "k8s://" + namespace +
\* "/" + lowercase(kind) + "/" + name, the namespace being "cluster-wide"
\* for a resource without one; two resources of the seven kinds that differ
\* in (namespace, kind, name) never get the same entity_id.
C19_EntityIdDerivedAndDistinct ==
    /\ \A i \in 1..Len(created) :
            LET obj == created[i].obj
            IN  created[i].entity.entity_id =
                    <<"k","8","s",":","/","/">> \o IdNamespace(obj) \o <<"/">>
                        \o LowerKind(obj.kind) \o <<"/">> \o obj.name
    /\ \A i, j \in 1..Len(created) :
            ~SameTriple(created[i].obj, created[j].obj)
                => created[i].entity.entity_id # created[j].entity.entity_id

\* C19 witness: the Namespace "a" and the Pod "a" of a namespace named
\* "cluster-wide" have both become entities.
C19_Witness ==
    /\ Len(created) = 2
    /\ created[1].obj = Resource(KindNamespace, <<"a">>, None)
    /\ created[2].obj = Resource(KindPod, <<"a">>, ClusterWide)
    /\ created[1].entity.namespace = ClusterWide
    /\ created[1].entity.entity_id # created[2].entity.entity_id

----------------------------------------------------------------------------
(* ChromaVectorStore: documents, metadata, ids and the collection *)

\* The default batch_size of add_entities_batch.
DefaultBatchSize == 100

\* hasattr(entity, a) and the entity's value for it is truthy.
HasTruthy(entity, a) == a \in DOMAIN entity /\ Truthy(entity[a])

\* _prepare_document_text: the labelled parts of the text, in order.  The
\* bodies of the model are shorter than the 2000 characters after which the
\* content is cut.
PrepareDocumentText(entity) ==
    LET p1 == IF "kind" \in DOMAIN entity THEN << <<"Type", entity.kind>> >>
              ELSE IF "source_name" \in DOMAIN entity
                   THEN << <<"Source", entity.source_name>> >> ELSE <<>>
        p2 == IF "name" \in DOMAIN entity THEN << <<"Name", entity.name>> >> ELSE <<>>
        p3 == IF HasTruthy(entity, "namespace")
              THEN << <<"Namespace", entity.namespace>> >> ELSE <<>>
        p4 == IF HasTruthy(entity, "repo_name")
              THEN << <<"Repository", entity.repo_name>> >> ELSE <<>>
        p5 == IF HasTruthy(entity, "repo_owner")
              THEN << <<"Owner", entity.repo_owner>> >> ELSE <<>>
        p6 == IF HasTruthy(entity, "path")
              THEN << <<"Path", entity.path>> >> ELSE <<>>
        p7 == IF HasTruthy(entity, "language")
              THEN << <<"Language", entity.language>> >> ELSE <<>>
        p8 == IF "labels" \in DOMAIN entity /\ DOMAIN entity.labels # {}
              THEN << <<"Labels", entity.labels>> >> ELSE <<>>
        p9 == IF "content" \in DOMAIN entity /\ ContentTruthy(entity.content)
              THEN << <<"Content", entity.content>> >> ELSE <<>>
    IN  p1 \o p2 \o p3 \o p4 \o p5 \o p6 \o p7 \o p8 \o p9

\* str(v) of a string or None.
Str(v) == IF v = None THEN <<"N","o","n","e">> ELSE v

Unknown == <<"u","n","k","n","o","w","n">>

\* _extract_metadata: the flat metadata of the document, every value str()-ed.
\* The entities of the model all carry an entity_id.
ExtractMetadata(entity) ==
    LET m0 == [timestamp |-> <<"n","o","w">>,
               entity_id |-> entity.entity_id,
               source |-> IF "source_name" \in DOMAIN entity
                          THEN entity.source_name ELSE Unknown]
        m1 == IF "kind" \in DOMAIN entity
              THEN DictSet(DictSet(m0, "kind", entity.kind), "type", Kubernetes)
              ELSE IF "source_name" \in DOMAIN entity /\ entity.source_name = Github
                   THEN DictSet(m0, "type", Github) ELSE m0
        m2 == IF "namespace" \in DOMAIN entity
              THEN DictSet(m1, "namespace", entity.namespace) ELSE m1
        m3 == IF "repo_name" \in DOMAIN entity
              THEN DictSet(m2, "repo_name", entity.repo_name) ELSE m2
        m4 == IF "repo_owner" \in DOMAIN entity
              THEN DictSet(m3, "repo_owner", entity.repo_owner) ELSE m3
        m5 == IF "language" \in DOMAIN entity
              THEN DictSet(m4, "language", entity.language) ELSE m4
        m6 == IF "name" \in DOMAIN entity
              THEN DictSet(m5, "name", entity.name) ELSE m5
    IN  [k \in DOMAIN m6 |-> Str(m6[k])]

\* _generate_embedding: the vector the model gives a text, a function of it.
GenerateEmbedding(text) == [vector_of |-> text]

\* uuid.uuid4().hex[:8]: the first eight hexadecimal digits of a random
\* UUID, any of the 16^8 values at every draw; the model draws from
\* 0..MaxSuffix.
MaxSuffix == 1
Suffixes == 0..MaxSuffix

\* f"{metadata['source']}_{metadata['entity_id']}_{uuid8}"
HexDigits == <<"0","1","2","3","4","5","6","7","8","9","a","b","c","d","e","f">>

\* The eight digits of the draws of the model, all below sixteen.
Hex8(n) == <<"0","0","0","0","0","0","0">> \o <<HexDigits[n + 1]>>

\* str(n) of a natural number, its decimal digits; int(n), a Python int: a
\* value no string equals, a mark that is no character before the digits.
RECURSIVE Decimal(_)
Decimal(n) ==
    IF n < 10 THEN <<HexDigits[n + 1]>>
    ELSE Decimal(n \div 10) \o <<HexDigits[(n % 10) + 1]>>

PyInt(n) == <<"<int>">> \o Decimal(n)

DocId(metadata, uuid8) ==
    metadata["source"] \o <<"_">> \o metadata["entity_id"] \o <<"_">> \o Hex8(uuid8)

\* The record of one entity as add_entity and add_entities_batch build it.
DocumentOf(entity, uuid8) ==
    LET text == PrepareDocumentText(entity)
        metadata == ExtractMetadata(entity)
    IN  [id |-> DocId(metadata, uuid8),
         document |-> text,
         embedding |-> GenerateEmbedding(text),
         metadata |-> metadata]

Ids(records) == [i \in 1..Len(records) |-> records[i].id]

\* The four lists of one collection.add call.
AddCall(records) ==
    [documents |-> [i \in 1..Len(records) |-> records[i].document],
     embeddings |-> [i \in 1..Len(records) |-> records[i].embedding],
     metadatas |-> [i \in 1..Len(records) |-> records[i].metadata],
     ids |-> Ids(records)]

\* collection.add of ChromaDB (release 1.0.20 by the comment in
\* search_github), which is not part of this repository: it raises when the
\* store cannot be reached and when the ids of one call repeat, and it
\* silently skips a record whose id the collection already holds.
CollectionAdd(coll, records, store_up) ==
    LET ids == Range(Ids(records))
        held == {d.id : d \in coll}
    IN  IF ~store_up \/ Cardinality(ids) # Len(records)
        THEN [raised |-> TRUE, collection |-> coll]
        ELSE [raised |-> FALSE,
              collection |-> coll \cup {r \in Range(records) : r.id \notin held}]

\* add_entity: one record, one collection.add; the id is returned.
add_entity(coll, entity, uuid8, embed_ok, store_up) ==
    IF ~embed_ok THEN [raised |-> TRUE, collection |-> coll, doc_ids |-> <<>>]
    ELSE LET rec == DocumentOf(entity, uuid8)
             added == CollectionAdd(coll, <<rec>>, store_up)
         IN  [raised |-> added.raised,
              collection |-> added.collection,
              doc_ids |-> IF added.raised THEN <<>> ELSE <<rec.id>>]

Min(a, b) == IF a < b THEN a ELSE b

\* The last position of the slice entities[i:i + batch_size], and one that
\* takes an entity too many.
SliceEnd_Inclusive(i, batch_size, n) == Min(i + batch_size, n)

SliceEnd(i, batch_size, n) == Min(i + batch_size - 1, n)

\* add_entities_batch: the entities in slices of batch_size, each slice
\* prepared and embedded entity by entity and then added in one
\* collection.add.  uuid8s[i] is the random part drawn for entity i, bad the
\* positions whose text or embedding cannot be computed, failing_add the
\* number of the collection.add call that the store fails (0: none).  An
\* exception of either ends the call, the slices added before it staying.
RECURSIVE AddBatchesFrom(_, _, _, _, _, _, _)
AddBatchesFrom(i, acc, entities, batch_size, uuid8s, bad, failing_add) ==
    IF i > Len(entities) THEN acc
    ELSE LET last == SliceEnd(i, batch_size, Len(entities))
             positions == i..last
             records == [j \in 1..(last - i + 1) |->
                            DocumentOf(entities[i + j - 1], uuid8s[i + j - 1])]
             call_no == Len(acc.add_calls) + 1
         IN  IF positions \cap bad # {}
             THEN [acc EXCEPT !.raised = TRUE]
             ELSE LET added == CollectionAdd(acc.collection, records,
                                             call_no # failing_add)
                      acc2 == [acc EXCEPT !.add_calls = Append(@, AddCall(records))]
                  IN  IF added.raised
                      THEN [acc2 EXCEPT !.raised = TRUE]
                      ELSE AddBatchesFrom(last + 1,
                               [acc2 EXCEPT !.collection = added.collection,
                                            !.doc_ids = @ \o Ids(records)],
                               entities, batch_size, uuid8s, bad, failing_add)

add_entities_batch(coll, entities, batch_size, uuid8s, bad, failing_add) ==
    AddBatchesFrom(1,
        [raised |-> FALSE, collection |-> coll, doc_ids |-> <<>>, add_calls |-> <<>>],
        entities, batch_size, uuid8s, bad, failing_add)

\* collection.count()
Count(coll) == Cardinality(coll)

----------------------------------------------------------------------------
(* DataIngestionPipeline.ingest_kubernetes_data *)

\* A namespace filter that drops the cluster-wide entities as well.
FilterEntities_DropClusterWide(entities, namespaces, resource_types) ==
    LET Keep(e) ==
            LET dropNs == /\ namespaces # <<>>
                          /\ e.namespace \notin Range(namespaces)
                dropKind == /\ resource_types # <<>>
                            /\ e.kind \notin Range(resource_types)
            IN  ~(dropNs \/ dropKind)
    IN  SelectSeq(entities, Keep)

\* The namespace and resource-type filters of the collecting loop, which
\* passes over (`continue`) the entities they drop; a None or empty list
\* keeps everything.
FilterEntities(entities, namespaces, resource_types) ==
    LET Keep(e) ==
            LET dropNs == /\ namespaces # <<>>
                          /\ e.namespace \notin Range(namespaces)
                          /\ e.namespace # ClusterWide
                dropKind == /\ resource_types # <<>>
                            /\ e.kind \notin Range(resource_types)
            IN  ~(dropNs \/ dropKind)
    IN  SelectSeq(entities, Keep)

\* ingest_kubernetes_data: collect, filter, add in batches of the default
\* size; every exception becomes {success: False, error}.  gen is what
\* generate_entities delivers, add what add_entities_batch does with the
\* entities kept (used only when there are any).
SourceFailed == [source |-> Kubernetes, success |-> FALSE, error |-> "source"]
StoreFailed == [source |-> Kubernetes, success |-> FALSE, error |-> "store"]

IngestOutcome(gen, entities, add) ==
    IF gen.raised THEN SourceFailed
    ELSE IF entities # <<>> /\ add.raised
    THEN StoreFailed
    ELSE [source |-> Kubernetes,
          entities_processed |-> Len(entities),
          documents_added |-> IF entities # <<>> THEN Len(add.doc_ids) ELSE 0,
          success |-> TRUE]

----------------------------------------------------------------------------
(* Bounds and inputs of the store and of the ingestion *)

\* The collection holds at most MaxDocs documents in the model.
MaxDocs == 2

ObjNamespace ==
    [kind |-> KindNamespace, name |-> NsDefault, namespace |-> None,
     labels |-> EmptyDict, data |-> NoneDict]

ObjPod ==
    [kind |-> KindPod, name |-> <<"a">>, namespace |-> NsDefault,
     labels |-> DictSet(EmptyDict, "app", <<"a">>), data |-> NoneDict]

ObjSecret ==
    [kind |-> KindSecret, name |-> <<"s">>, namespace |-> NsKubeSystem,
     labels |-> EmptyDict,
     data |-> DictSet(DictSet(EmptyDict, "password", <<"c","H","c","=">>),
                      "token", <<"d","G","s","=">>)]

\* What the API may hold when an ingestion lists it.
Clusters ==
    { <<>>,
      <<ObjPod>>,
      <<ObjSecret>>,
      <<ObjPod, ObjNamespace>> }

\* What may go wrong during one ingestion: nothing; initialize() failing;
\* the listing of one kind answering with an API error or not at all; the
\* text or embedding of the entity at one position failing; the store
\* failing the collection.add.
FaultKinds == {KindPod}

Faults ==
    {[kind |-> "none"], [kind |-> "init"], [kind |-> "store"]}
    \cup {[kind |-> "listing", of |-> k, outcome |-> o] :
            k \in FaultKinds, o \in {"ApiException", "error"}}
    \cup {[kind |-> "embed", position |-> p] : p \in {1, 2}}

\* An entity as the tests of the vector store build a GitHub one.
GithubEntity ==
    [entity_id |-> <<"g","i","t","h","u","b","/","o","/","r","/","f">>,
     source_name |-> Github,
     name |-> <<"f",".","p","y">>,
     repo_name |-> <<"r">>,
     repo_owner |-> <<"o">>,
     path |-> <<"s","/","f",".","p","y">>,
     language |-> LangPython,
     content |-> [text |-> <<"d","e","f">>]]

PodEntity == EntityOf(ObjPod, KindPod)

\* The lists handed to add_entities_batch, repeats of one entity included.
EntityLists ==
    { <<>>,
      <<PodEntity>>,
      <<PodEntity, PodEntity>>,
      <<PodEntity, GithubEntity>>,
      <<GithubEntity, PodEntity>> }

BatchSizeArgs == {1, 2, DefaultBatchSize}
EntityArgs == {PodEntity, GithubEntity}
BatchFaults ==
    {[kind |-> "none"], [kind |-> "store"]}
    \cup {[kind |-> "embed", position |-> p] : p \in {1, 2}}

----------------------------------------------------------------------------
(* The vector store as a state machine: one call per step *)

InitStore ==
    /\ collection = {}
    /\ store_op = [op |-> "none"]

AddEntity ==
    \E entity \in EntityArgs, uuid8 \in Suffixes,
       embed_ok \in BOOLEAN, store_up \in BOOLEAN :
        LET r == add_entity(collection, entity, uuid8, embed_ok, store_up)
        IN  /\ Count(collection) + 1 <= MaxDocs
            /\ collection' = r.collection
            /\ store_op' = [op |-> "add_entity", entities |-> <<entity>>,
                            faulty |-> ~(embed_ok /\ store_up),
                            raised |-> r.raised, doc_ids |-> r.doc_ids,
                            count_before |-> Count(collection)]
            /\ UNCHANGED <<intentVars, searchVars, ingestVars, githubVars, chatVars,
                 formatVars, entityVars, pipelineVars>>

AddEntitiesBatch ==
    \E entities \in EntityLists, batch_size \in BatchSizeArgs,
       fault \in BatchFaults :
      \E uuid8s \in [1..Len(entities) -> Suffixes] :
        LET bad == IF fault.kind = "embed" THEN {fault.position} ELSE {}
            r == add_entities_batch(collection, entities, batch_size, uuid8s, bad,
                                    IF fault.kind = "store" THEN 1 ELSE 0)
        IN  /\ Count(collection) + Len(entities) <= MaxDocs
            /\ fault.kind = "embed" => fault.position <= Len(entities)
            /\ fault.kind = "store" => entities # <<>>
            /\ collection' = r.collection
            /\ store_op' = [op |-> "add_entities_batch", entities |-> entities,
                            batch_size |-> batch_size,
                            faulty |-> fault.kind # "none",
                            raised |-> r.raised, doc_ids |-> r.doc_ids,
                            add_calls |-> r.add_calls,
                            count_before |-> Count(collection)]
            /\ UNCHANGED <<intentVars, searchVars, ingestVars, githubVars, chatVars,
                 formatVars, entityVars, pipelineVars>>

\* A reset that gets the collection again without deleting it first.
ResetCollection_KeepsDocuments ==
    /\ collection' = collection
    /\ store_op' = [op |-> "reset_collection", count_before |-> Count(collection)]
    /\ UNCHANGED <<intentVars, searchVars, ingestVars, githubVars, chatVars,
                 formatVars, entityVars, pipelineVars>>

\* reset_collection: the collection deleted and created again, empty.
ResetCollection ==
    /\ collection' = {}
    /\ store_op' = [op |-> "reset_collection", count_before |-> Count(collection)]
    /\ UNCHANGED <<intentVars, searchVars, ingestVars, githubVars, chatVars,
                 formatVars, entityVars, pipelineVars>>

----------------------------------------------------------------------------
(* add_entities_batch on any list: the list, the batch size and the fault   *)
(* are the input, the step is the call on an empty collection               *)

\* The longest list handed to add_entities_batch in one call of the model.
MaxBatch == 3

RECURSIVE ListsOf(_)
ListsOf(n) ==
    IF n = 0 THEN {<<>>}
    ELSE ListsOf(n - 1) \cup
         {Append(l, e) : l \in {k \in ListsOf(n - 1) : Len(k) = n - 1}, e \in EntityArgs}

BatchLists == ListsOf(MaxBatch)
BatchSizes == {1, 2, 3, DefaultBatchSize}

\* ceil(n / b)
CeilDiv(n, b) == (n + b - 1) \div b

\* Nothing fails, the text or embedding of one entity does, or the store
\* fails one of the collection.add calls.
BatchCallFaults ==
    {[kind |-> "none"]}
    \cup {[kind |-> "embed", position |-> p] : p \in 1..MaxBatch}
    \cup {[kind |-> "store", call |-> c] : c \in {1, 2}}

InitBatchInputs ==
    /\ collection = {}
    /\ \E entities \in BatchLists, batch_size \in BatchSizes, fault \in BatchCallFaults :
        /\ fault.kind = "embed" => fault.position <= Len(entities)
        /\ fault.kind = "store" => fault.call <= CeilDiv(Len(entities), batch_size)
        /\ store_op = [op |-> "none", entities |-> entities,
                       batch_size |-> batch_size, fault |-> fault]

AddEntitiesBatchOnInput ==
    /\ store_op.op = "none"
    /\ "fault" \in DOMAIN store_op
    /\ \E uuid8s \in [1..Len(store_op.entities) -> Suffixes] :
        LET fault == store_op.fault
            bad == IF fault.kind = "embed" THEN {fault.position} ELSE {}
            r == add_entities_batch(collection, store_op.entities,
                                    store_op.batch_size, uuid8s, bad,
                                    IF fault.kind = "store" THEN fault.call ELSE 0)
        IN  /\ collection' = r.collection
            /\ store_op' = [op |-> "add_entities_batch",
                            entities |-> store_op.entities,
                            batch_size |-> store_op.batch_size,
                            faulty |-> fault.kind # "none",
                            raised |-> r.raised, doc_ids |-> r.doc_ids,
                            add_calls |-> r.add_calls,
                            count_before |-> Count(collection)]
    /\ UNCHANGED <<intentVars, searchVars, ingestVars, githubVars, chatVars,
                   formatVars, entityVars, pipelineVars>>

\* add_entities_batch returned its list of ids.
BatchReturned == store_op.op = "add_entities_batch" /\ ~store_op.raised

\* The ids of the calls, one call after the other.
RECURSIVE IdsOfCalls(_)
IdsOfCalls(calls) ==
    IF calls = <<>> THEN <<>> ELSE Head(calls).ids \o IdsOfCalls(Tail(calls))

\* C24: add_entities_batch over n entities with batch size b ends after
\* ceil(n/b) collection.add calls made one after another in input order,
\* each with between 1 and b records and lists of documents, embeddings,
\* metadatas and ids of one length; every entity is in exactly one call, and
\* the list of ids returned has length n, in input order.
C24_BatchesOfFixedSize ==
    BatchReturned =>
        LET n == Len(store_op.entities)
            b == store_op.batch_size
            calls == store_op.add_calls
        IN  /\ Len(calls) = CeilDiv(n, b)
            /\ \A c \in 1..Len(calls) :
                    /\ Len(calls[c].ids) \in 1..b
                    /\ Len(calls[c].documents) = Len(calls[c].ids)
                    /\ Len(calls[c].embeddings) = Len(calls[c].ids)
                    /\ Len(calls[c].metadatas) = Len(calls[c].ids)
                    /\ \A j \in 1..Len(calls[c].ids) :
                            LET e == store_op.entities[(c - 1) * b + j]
                            IN  /\ calls[c].documents[j] = PrepareDocumentText(e)
                                /\ calls[c].metadatas[j] = ExtractMetadata(e)
            /\ store_op.doc_ids = IdsOfCalls(calls)
            /\ Len(store_op.doc_ids) = n
            /\ \A i \in 1..n :
                    \E u \in Suffixes :
                        store_op.doc_ids[i] =
                            DocId(ExtractMetadata(store_op.entities[i]), u)

\* C24 witness: three entities in batches of two: a call of two records,
\* then a call of one.
C24_Witness ==
    /\ BatchReturned
    /\ Len(store_op.entities) = 3
    /\ store_op.batch_size = 2
    /\ store_op.entities[2] # store_op.entities[3]
    /\ Len(store_op.add_calls) = 2
    /\ Len(store_op.add_calls[1].ids) = 2
    /\ Len(store_op.add_calls[2].ids) = 1
    /\ Len(store_op.doc_ids) = 3

----------------------------------------------------------------------------
(* The Kubernetes ingestion as a state machine: one run per step *)

InitIngest ==
    /\ cluster = <<>>
    /\ k8s_fault = [kind |-> "none"]
    /\ yielded = <<>>
    /\ batch_calls = <<>>
    /\ ingest_result = [source |-> None]

\* The outcome of every listing call under a fault.
ListingOf(fault) ==
    [k \in Range(resource_generators) |->
        IF fault.kind = "listing" /\ fault.of = k THEN fault.outcome ELSE "ok"]

\* One run of ingest_kubernetes_data(namespaces, resource_types) on the
\* cluster items under a fault: what it does to the collection and the
\* result it returns.
IngestKubernetesDataOn(items, fault, namespaces, resource_types) ==
    LET gen == generate_entities(items, fault.kind # "init", ListingOf(fault))
        entities == FilterEntities(gen.entities, namespaces, resource_types)
        stores == ~gen.raised /\ entities # <<>>
    IN  /\ Count(collection) + Len(entities) <= MaxDocs
        /\ fault.kind = "embed" => (stores /\ fault.position <= Len(entities))
        /\ fault.kind = "store" => stores
        /\ \E uuid8s \in [1..Len(entities) -> Suffixes] :
            LET bad == IF fault.kind = "embed" THEN {fault.position} ELSE {}
                add == add_entities_batch(collection, entities, DefaultBatchSize,
                            uuid8s, bad, IF fault.kind = "store" THEN 1 ELSE 0)
            IN  /\ collection' = IF stores THEN add.collection ELSE collection
                /\ ingest_result' = IngestOutcome(gen, entities, add)
        /\ cluster' = items
        /\ k8s_fault' = fault
        /\ yielded' = gen.entities
        /\ batch_calls' = IF stores THEN <<entities>> ELSE <<>>

\* ingest_kubernetes_data() as the demo calls it, without filters.
IngestKubernetesData ==
    \E items \in Clusters, fault \in Faults :
        /\ IngestKubernetesDataOn(items, fault, <<>>, <<>>)
        /\ UNCHANGED <<intentVars, searchVars, store_op, githubVars, chatVars,
                       formatVars, entityVars, pipelineVars>>

----------------------------------------------------------------------------
(* Claims about the vector store *)

\* The step is an add_entity of the entity that the add_entity before it
\* added, neither with a failing embedding or store.
SameEntityAddedAgain ==
    /\ store_op.op = "add_entity" /\ ~store_op.faulty
    /\ store_op'.op = "add_entity" /\ ~store_op'.faulty
    /\ store_op'.entities = store_op.entities

\* The step is an add_entities_batch of a list that holds one entity twice,
\* with no failing embedding or store.
SameEntityTwiceInBatch ==
    /\ store_op'.op = "add_entities_batch" /\ ~store_op'.faulty
    /\ Len(store_op'.entities) = 2
    /\ store_op'.entities[1] = store_op'.entities[2]

\* C6: adding the same entity twice, by two add_entity calls or in one
\* add_entities_batch, stores two documents under two distinct ids and
\* raises the document count by exactly 2.
C6_SameEntityTwiceStoresTwoDocuments ==
    [][ /\ SameEntityAddedAgain =>
            /\ ~store_op.raised /\ ~store_op'.raised
            /\ store_op'.doc_ids[1] # store_op.doc_ids[1]
            /\ Count(collection') = store_op.count_before + 2
        /\ SameEntityTwiceInBatch =>
            /\ ~store_op'.raised
            /\ Len(store_op'.doc_ids) = 2
            /\ store_op'.doc_ids[1] # store_op'.doc_ids[2]
            /\ Count(collection') = Count(collection) + 2 ]_vars

----------------------------------------------------------------------------
(* Claims about the Kubernetes ingestion *)

\* ingest_kubernetes_data has run.
Ingested == "success" \in DOMAIN ingest_result

\* C4: whenever the Kubernetes API or the store is unreachable or answers
\* with an error during ingest_kubernetes_data, the result has success =
\* false (and an error message); a failed listing is never dropped to leave
\* success = true with fewer entities.
ConnectivityFaults == {"init", "listing", "store"}

C4_FailureGivesFailedResult ==
    (Ingested /\ k8s_fault.kind \in ConnectivityFaults)
        => /\ ingest_result.success = FALSE
           /\ "error" \in DOMAIN ingest_result

\* Every value under "data" of a JSON content is the placeholder.
DataRedacted(content) ==
    "data" \in DOMAIN content.json =>
        \A k \in DOMAIN content.json["data"] : content.json["data"][k] = Redacted

\* The Content parts of a document text.
ContentParts(text) == {text[i][2] : i \in {j \in 1..Len(text) : text[j][1] = "Content"}}

SecretKeys == {"password", "token"}

C8_FailedEntitySkipped ==
    (Ingested /\ k8s_fault.kind = "embed" /\ Len(yielded) >= 2)
        => /\ ingest_result.success = TRUE
           /\ ingest_result.documents_added = Len(yielded) - 1

----------------------------------------------------------------------------
(* DataIngestionPipeline: ingest_github_repo, run_full_ingestion,           *)
(* get_cluster_summary; ChromaVectorStore.get_collection_stats              *)

\* ingest_github_repo: not implemented, it reports so.
ingest_github_repo(repo_name) ==
    [source |-> Github,
     repo_name |-> repo_name,
     message |-> "GitHub ingestion not yet implemented",
     success |-> FALSE]

\* metadata.get(key, default) of a document, and the number of documents of
\* S for each value it takes.
FieldOfDocument(d, key, default) == DictGetOr(d.metadata, key, default)
Tally(S, key, default) == [v \in {FieldOfDocument(d, key, default) : d \in S} |-> Cardinality({d \in S : FieldOfDocument(d, key, default) = v})]

SourceOfDocument(d) == FieldOfDocument(d, "source", Unknown)
KindOfDocument(d) == DictGet(d.metadata, "kind")
RepoOfDocument(d) == DictGet(d.metadata, "repo_name")

\* get_collection_stats: the count, and the documents per source, kind and
\* repository over a sample of at most 100 documents, which is every
\* document of the collections of the model.
get_collection_stats(coll) ==
    [total_documents |-> Count(coll),
     sources |-> Tally(coll, "source", Unknown),
     kubernetes_kinds |-> Tally({d \in coll : Truthy(KindOfDocument(d))}, "kind", None),
     github_repos |-> Tally({d \in coll : Truthy(RepoOfDocument(d))}, "repo_name", None),
     collection_name |-> "operius_knowledge",
     embedding_model |-> "all-MiniLM-L6-v2"]

\* A test of the key alone, `"success" in result`, whatever its value.
Succeeded_HasKey(result) == "success" \in DOMAIN result

\* result.get("success"), result.get(field, 0)
Succeeded(result) == "success" \in DOMAIN result /\ result["success"] = TRUE
GetOrZero(result, field) == IF field \in DOMAIN result THEN result[field] ELSE 0

\* The sum of a field over the successful results of a list.
RECURSIVE SumSuccessful(_, _)
SumSuccessful(results, field) ==
    IF results = <<>> THEN 0
    ELSE (IF Succeeded(Head(results)) THEN GetOrZero(Head(results), field) ELSE 0)
         + SumSuccessful(Tail(results), field)

\* run_full_ingestion once ingest_kubernetes_data has returned k8s_result:
\* one ingest_github_repo per repository when repositories are given, the
\* sums over the successful results, the statistics of the collection.
run_full_ingestion(k8s_result, github_repos, coll) ==
    LET github_results ==
            [i \in 1..Len(github_repos) |-> ingest_github_repo(github_repos[i])]
        s0 == DictSet(EmptyDict, "kubernetes", k8s_result)
        sources == IF github_repos # <<>>
                   THEN DictSet(s0, "github", github_results) ELSE s0
        all == <<k8s_result>> \o github_results
    IN  [pipeline_start |-> "start",
         sources |-> sources,
         pipeline_end |-> "end",
         total_duration |-> "seconds",
         summary |->
            [total_entities_processed |-> SumSuccessful(all, "entities_processed"),
             total_documents_added |-> SumSuccessful(all, "documents_added"),
             successful_sources |-> SumSuccessful(
                    [i \in 1..Len(all) |-> [success |-> Succeeded(all[i]), one |-> 1]],
                    "one"),
             vector_store_stats |-> get_collection_stats(coll)]]

\* The resources get_cluster_summary counts, in its order, and the keys it
\* counts them under (Ingresses are not counted).
summary_kinds ==
    << KindPod, KindService, KindDeployment, KindNamespace, KindConfigMap, KindSecret >>
summary_keys ==
    << "pods", "services", "deployments", "namespaces", "configmaps", "secrets" >>

ItemsCount(items, kind) == Cardinality({i \in 1..Len(items) : items[i].kind = kind})

\* The summary before the counting.
NewSummary ==
    [cluster_name |-> "unknown-cluster", timestamp |-> "now", resources |-> EmptyDict]

\* The counting of KubernetesSource.get_cluster_summary: an ApiException
\* ends it with summary["error"] set, another exception leaves the method.
RECURSIVE CountResources(_, _, _, _)
CountResources(i, items, listing, summary) ==
    IF i > Len(summary_kinds) THEN [raised |-> FALSE, summary |-> summary]
    ELSE LET kind == summary_kinds[i]
         IN  IF listing[kind] = "error"
             THEN [raised |-> TRUE, summary |-> summary]
             ELSE IF listing[kind] = "ApiException"
             THEN [raised |-> FALSE,
                   summary |-> DictSet(summary, "error", "ApiException")]
             ELSE CountResources(i + 1, items, listing,
                      [summary EXCEPT
                          !["resources"] =
                              DictSet(@, summary_keys[i], ItemsCount(items, kind))])

\* KubernetesSource.get_cluster_summary: initialize(), then the counting.
source_get_cluster_summary(items, init_ok, listing) ==
    IF ~init_ok THEN [raised |-> TRUE, summary |-> NewSummary]
    ELSE CountResources(1, items, listing, NewSummary)

SummaryFailed == [error |-> "exception", success |-> FALSE]

\* DataIngestionPipeline.get_cluster_summary: the summary of the source, or
\* {error, success: False} when the source raises.
get_cluster_summary(items, init_ok, listing) ==
    LET r == source_get_cluster_summary(items, init_ok, listing)
    IN  IF r.raised THEN SummaryFailed ELSE r.summary

----------------------------------------------------------------------------
(* Inputs of the pipeline *)

RepoLists == { <<>>, <<RepoName>>, <<RepoName, <<"o","/","q">> >> }
NamespaceLists == { <<>>, <<NsKubeSystem>> }
NoFault == [kind |-> "none"]

\* No pipeline call made yet on the cluster, under the fault and with the
\* arguments at hand.
NoPipelineCall ==
    [op |-> "none", items |-> <<>>, fault |-> NoFault,
     github_repos |-> <<>>, k8s_namespaces |-> <<>>, resource_types |-> <<>>,
     result |-> NoneDict]

----------------------------------------------------------------------------
(* The pipeline as a state machine: the cluster, the fault and the          *)
(* arguments are the input, the step is one call of a new pipeline          *)

InitPipeline ==
    pipeline = NoPipelineCall

InitPipelineInputs ==
    \E items \in Clusters, fault \in Faults,
       github_repos \in RepoLists, k8s_namespaces \in NamespaceLists :
        pipeline = [NoPipelineCall EXCEPT !.items = items,
                                          !.fault = fault,
                                          !.github_repos = github_repos,
                                          !.k8s_namespaces = k8s_namespaces]

\* ingest_kubernetes_data(namespaces, resource_types) called on the pipeline.
PipelineIngestKubernetesData ==
    /\ pipeline.op = "none"
    /\ IngestKubernetesDataOn(pipeline.items, pipeline.fault,
                              pipeline.k8s_namespaces, pipeline.resource_types)
    /\ pipeline' = [pipeline EXCEPT !.op = "ingest_kubernetes_data",
                                    !.result = ingest_result']
    /\ UNCHANGED <<intentVars, searchVars, store_op, githubVars, chatVars,
                   formatVars, entityVars>>

IngestGithubRepo ==
    /\ pipeline.op = "none"
    /\ \E repo_name \in Range(pipeline.github_repos) :
            pipeline' = [pipeline EXCEPT !.op = "ingest_github_repo",
                                        !.result = ingest_github_repo(repo_name)]
    /\ UNCHANGED <<intentVars, searchVars, storeVars, ingestVars, githubVars,
                   chatVars, formatVars, entityVars>>

\* run_full_ingestion(github_repos, k8s_namespaces): the Kubernetes
\* ingestion with all it does to the collection, then the rest.
RunFullIngestion ==
    /\ pipeline.op = "none"
    /\ IngestKubernetesDataOn(pipeline.items, pipeline.fault,
                              pipeline.k8s_namespaces, <<>>)
    /\ pipeline' = [pipeline EXCEPT
                        !.op = "run_full_ingestion",
                        !.result = run_full_ingestion(ingest_result',
                                        pipeline.github_repos, collection')]
    /\ UNCHANGED <<intentVars, searchVars, store_op, githubVars, chatVars,
                   formatVars, entityVars>>

SummaryFaults == {"none", "init", "listing"}

GetClusterSummary ==
    /\ pipeline.op = "none"
    /\ pipeline.fault.kind \in SummaryFaults
    /\ pipeline' = [pipeline EXCEPT
                        !.op = "get_cluster_summary",
                        !.result = get_cluster_summary(pipeline.items,
                                        pipeline.fault.kind # "init",
                                        ListingOf(pipeline.fault))]
    /\ UNCHANGED <<intentVars, searchVars, storeVars, ingestVars, githubVars,
                   chatVars, formatVars, entityVars>>

----------------------------------------------------------------------------
(* Claims about the pipeline *)

\* A pipeline operation has returned.
PipelineReturned == pipeline.op # "none"

\* C20: the result of every batch or pipeline operation
\* (ingest_kubernetes_data, ingest_github_repo, run_full_ingestion,
\* get_cluster_summary), whether it succeeded or failed, has a success field
\* that is a boolean.
C20_ResultCarriesSuccessFlag ==
    PipelineReturned =>
        /\ "success" \in DOMAIN pipeline.result
        /\ pipeline.result["success"] \in BOOLEAN

----------------------------------------------------------------------------
(* ChromaVectorStore.search and get_collection_stats on the collection *)

\* One condition map of a where clause: the document has every pair of it.
FlatMatches(where, metadata) ==
    \A k \in DOMAIN where : k \in DOMAIN metadata /\ metadata[k] = where[k]

\* collection.query(where=...): {"$and": [...]} holds when every clause
\* does, a map of conditions when the document has every pair, and no where
\* clause holds of every document.
Matches(where, metadata) ==
    IF where = NoneDict THEN TRUE
    ELSE IF "$and" \in DOMAIN where
    THEN \A i \in 1..Len(where["$and"]) : FlatMatches(where["$and"][i], metadata)
    ELSE FlatMatches(where, metadata)

Matching(coll, where) == {d \in coll : Matches(where, d.metadata)}

\* The orders in which the distances to a query may rank documents: the
\* embedding model is not part of this repository, any order may come.
Rankings(S) ==
    {r \in [1..Cardinality(S) -> S] :
        \A i, j \in 1..Cardinality(S) : i # j => r[i] # r[j]}

\* search(query, n_results, filters) once the query is embedded: the
\* n_results nearest of the matching documents, nearest first, each with
\* its document and metadata (and the distance, which the model leaves out).
store_search(ranking, n_results) ==
    [i \in 1..Min(n_results, Len(ranking)) |->
        [document |-> ranking[i].document, metadata |-> ranking[i].metadata]]

\* The where clause search is given: None when filters is None or empty.
WhereClause(filters) == IF DictTruthy(filters) THEN filters ELSE NoneDict

StoreFilters ==
    { NoneDict, GithubFilters(None, None), KubernetesFilters(KindPod, NsDefault) }

StoreResultsArgs == {1, 10}

\* search on the collection; an embedding that fails raises.
StoreSearch ==
    \E n_results \in StoreResultsArgs, filters \in StoreFilters, embed_ok \in BOOLEAN :
      \E ranking \in Rankings(Matching(collection, WhereClause(filters))) :
        /\ store_op' = [op |-> "search", n_results |-> n_results,
                        filters |-> filters, raised |-> ~embed_ok,
                        results |-> IF embed_ok
                                    THEN store_search(ranking, n_results) ELSE <<>>,
                        count_before |-> Count(collection)]
        /\ UNCHANGED <<collection, intentVars, searchVars, ingestVars, githubVars,
                       chatVars, formatVars, entityVars, pipelineVars>>

GetCollectionStats ==
    /\ store_op' = [op |-> "get_collection_stats",
                    stats |-> get_collection_stats(collection),
                    count_before |-> Count(collection)]
    /\ UNCHANGED <<collection, intentVars, searchVars, ingestVars, githubVars,
                   chatVars, formatVars, entityVars, pipelineVars>>

ReadOperations == {"search", "get_collection_stats"}

\* C25: over any sequence of add_entity, add_entities_batch, search,
\* get_collection_stats and reset_collection calls, the count of stored
\* documents never decreases except at reset_collection, which leaves the
\* count 0 and the collection usable for further adds; a search or the
\* statistics never change the stored documents.
C25_CountDecreasesOnlyAtReset ==
    [][ /\ store_op'.op # "reset_collection" =>
                Count(collection') >= Count(collection)
        /\ store_op'.op = "reset_collection" => Count(collection') = 0
        /\ store_op'.op \in ReadOperations => collection' = collection
        /\ (/\ store_op.op = "reset_collection"
            /\ store_op'.op = "add_entity" /\ ~store_op'.faulty) =>
                /\ ~store_op'.raised
                /\ Count(collection') = 1 ]_vars

\* C25 witness: a reset of a collection that held two documents has left it
\* empty.
C25_Witness ==
    /\ store_op.op = "reset_collection"
    /\ store_op.count_before = 2
    /\ Count(collection) = 0

----------------------------------------------------------------------------
(* The classifier's suggestions against what the sources store *)

\* The kinds the Kubernetes source writes: one per generator.
StoredKinds == Range(resource_generators)

\* C27: whenever analyze_query_intent suggests a kind filter, its value is
\* one of the kind strings the Kubernetes source writes into the metadata
\* (Pod, Service, Deployment, ConfigMap, Secret, Namespace, Ingress), so
\* that the search_kubernetes call made with it can match stored documents.
C27_SuggestedKindIsStoredKind ==
    (Analysed /\ "kind" \in DOMAIN intent.suggested_filters)
        => intent.suggested_filters["kind"] \in StoredKinds

\* run_full_ingestion has returned; its source results, the Kubernetes one
\* first, then the GitHub ones.
FullIngestionReturned == pipeline.op = "run_full_ingestion"

GithubResults ==
    IF "github" \in DOMAIN pipeline.result.sources
    THEN pipeline.result.sources["github"] ELSE <<>>

SourceResults == <<pipeline.result.sources["kubernetes"]>> \o GithubResults

SuccessfulResults == {i \in 1..Len(SourceResults) : SourceResults[i].success = TRUE}

\* The sum of f over the set S of its arguments.
RECURSIVE SumOf(_, _)
SumOf(S, f) ==
    IF S = {} THEN 0
    ELSE LET x == CHOOSE y \in S : TRUE
         IN  f[x] + SumOf(S \ {x}, f)

\* C23: in the summary of run_full_ingestion, total_entities_processed and
\* total_documents_added are the sums of entities_processed and
\* documents_added over exactly the source results with success = true (the
\* Kubernetes result and each GitHub result), successful_sources is their
\* number, and one GitHub result is recorded per requested repository, in
\* request order.
C23_SummarySumsSuccessfulResults ==
    FullIngestionReturned =>
        /\ pipeline.result.sources["kubernetes"] = ingest_result
        /\ Len(GithubResults) = Len(pipeline.github_repos)
        /\ \A i \in 1..Len(GithubResults) :
                GithubResults[i].repo_name = pipeline.github_repos[i]
        /\ pipeline.result.summary.successful_sources = Cardinality(SuccessfulResults)
        /\ pipeline.result.summary.total_entities_processed =
                SumOf(SuccessfulResults,
                      [i \in SuccessfulResults |-> SourceResults[i].entities_processed])
        /\ pipeline.result.summary.total_documents_added =
                SumOf(SuccessfulResults,
                      [i \in SuccessfulResults |-> SourceResults[i].documents_added])

\* C23 witness: two repositories requested, the Kubernetes ingestion stored
\* two documents and the GitHub results, both failed, added nothing.
C23_Witness ==
    /\ FullIngestionReturned
    /\ Len(pipeline.github_repos) = 2
    /\ pipeline.github_repos[1] # pipeline.github_repos[2]
    /\ SuccessfulResults = {1}
    /\ pipeline.result.summary.successful_sources = 1
    /\ pipeline.result.summary.total_entities_processed = 2
    /\ pipeline.result.summary.total_documents_added = 2

----------------------------------------------------------------------------
(* ingest_kubernetes_data with filters: the cluster, the fault and the two  *)
(* lists are the input, the step is the call                                *)

ObjPodKubeSystem ==
    [kind |-> KindPod, name |-> <<"b">>, namespace |-> NsKubeSystem,
     labels |-> EmptyDict, data |-> NoneDict]

\* Clusters whose entities the filters partly keep, a dropped one between
\* two kept ones included.
FilterClusters ==
    Clusters \cup { <<ObjPod, ObjPodKubeSystem, ObjNamespace>>,
                    <<ObjSecret, ObjPod, ObjNamespace>> }

NamespaceFilters ==
    { <<>>, <<NsDefault>>, <<NsKubeSystem>>, <<NsKubeSystem, NsDefault>> }

ResourceTypeFilters ==
    { <<>>, <<KindPod>>, <<KindSecret, KindNamespace>>, <<KindIngress>> }

InitFilterInputs ==
    \E items \in FilterClusters, fault \in Faults,
       namespaces \in NamespaceFilters, resource_types \in ResourceTypeFilters :
        pipeline = [NoPipelineCall EXCEPT !.items = items,
                                          !.fault = fault,
                                          !.k8s_namespaces = namespaces,
                                          !.resource_types = resource_types]

\* The source delivered every entity: initialize() and every listing
\* answered, if only with an API error.
SourceDelivered ==
    /\ pipeline.fault.kind # "init"
    /\ pipeline.fault.kind = "listing" => pipeline.fault.outcome = "ApiException"

\* The filters of the call keep the entity.
KeptByFilters(e) ==
    /\ \/ pipeline.k8s_namespaces = <<>>
       \/ e.namespace \in Range(pipeline.k8s_namespaces)
       \/ e.namespace = ClusterWide
    /\ \/ pipeline.resource_types = <<>>
       \/ e.kind \in Range(pipeline.resource_types)

Kept == SelectSeq(yielded, KeptByFilters)

FilteredIngestionReturned ==
    pipeline.op = "ingest_kubernetes_data" /\ SourceDelivered

StoreFaults == {"embed", "store"}

\* C22: ingest_kubernetes_data with a namespaces list keeps an entity if and
\* only if its namespace is in the list or is "cluster-wide", and with a
\* resource_types list only if its kind is in the list (an empty list is no
\* list); exactly the kept entities are passed to the store, in one call and
\* in source order; entities_processed is their number; with no kept
\* entities the store is not called and the result is success = true with
\* both counts 0.
C22_FiltersKeepListedEntities ==
    FilteredIngestionReturned =>
        /\ batch_calls = IF Kept = <<>> THEN <<>> ELSE <<Kept>>
        /\ pipeline.fault.kind \notin StoreFaults => pipeline.result.success
        /\ pipeline.result.success =>
                pipeline.result.entities_processed = Len(Kept)
        /\ Kept = <<>> =>
                /\ pipeline.result.success
                /\ pipeline.result.entities_processed = 0
                /\ pipeline.result.documents_added = 0

\* C22 witness: both lists given, the source yielded three entities and the
\* filters kept the first and the last of them; and a call that kept none.
C22_Witness ==
    /\ FilteredIngestionReturned
    /\ pipeline.k8s_namespaces # <<>>
    /\ Len(yielded) = 3
    /\ Kept = <<yielded[1], yielded[3]>>
    /\ yielded[1].namespace = ClusterWide
    /\ batch_calls = <<Kept>>
    /\ pipeline.result.success
    /\ pipeline.result.entities_processed = 2

----------------------------------------------------------------------------
(* ingest_kubernetes_data on a cluster of about a hundred resources, which  *)
(* add_entities_batch adds in batches of the default size                   *)

\* Pod number i of the namespace default.
BulkPod(i) ==
    [kind |-> KindPod, name |-> <<"p">> \o Decimal(i), namespace |-> NsDefault,
     labels |-> EmptyDict, data |-> NoneDict]

BulkCluster(n) == [i \in 1..n |-> BulkPod(i)]

\* One Pod fewer than a batch, a batch, one and two more.
BulkSizes == (DefaultBatchSize - 1)..(DefaultBatchSize + 2)

\* The positions whose text or embedding may fail: the first, and those
\* around the end of the first batch.
BulkPositions == {1, DefaultBatchSize, DefaultBatchSize + 1}

BulkFaults ==
    {[kind |-> "none"], [kind |-> "init"]}
    \cup {[kind |-> "embed", position |-> p] : p \in BulkPositions}
    \cup {[kind |-> "store", call |-> c] : c \in {1, 2}}

InitBulkInputs ==
    \E n \in BulkSizes, fault \in BulkFaults, namespaces \in NamespaceFilters :
        /\ fault.kind = "embed" => fault.position <= n
        /\ fault.kind = "store" => fault.call <= CeilDiv(n, DefaultBatchSize)
        /\ pipeline = [NoPipelineCall EXCEPT !.items = BulkCluster(n),
                                             !.fault = fault,
                                             !.k8s_namespaces = namespaces]

\* ingest_kubernetes_data(namespaces) on the large cluster.  The entities
\* have different entity ids, so that their document ids differ whatever
\* the random parts: one draw serves for all of them.
BulkIngestKubernetesData ==
    /\ pipeline.op = "none"
    /\ LET fault == pipeline.fault
           gen == generate_entities(pipeline.items, fault.kind # "init",
                                    ListingOf(fault))
           entities == FilterEntities(gen.entities, pipeline.k8s_namespaces,
                                      pipeline.resource_types)
           stores == ~gen.raised /\ entities # <<>>
           bad == IF fault.kind = "embed" THEN {fault.position} ELSE {}
       IN  /\ fault.kind \in StoreFaults => stores
           /\ \E uuid8 \in Suffixes :
                LET add == add_entities_batch(collection, entities, DefaultBatchSize,
                                [i \in 1..Len(entities) |-> uuid8], bad,
                                IF fault.kind = "store" THEN fault.call ELSE 0)
                IN  /\ collection' = IF stores THEN add.collection ELSE collection
                    /\ ingest_result' = IngestOutcome(gen, entities, add)
           /\ cluster' = pipeline.items
           /\ k8s_fault' = fault
           /\ yielded' = gen.entities
           /\ batch_calls' = IF stores THEN <<entities>> ELSE <<>>
    /\ pipeline' = [pipeline EXCEPT !.op = "ingest_kubernetes_data",
                                    !.result = ingest_result']
    /\ UNCHANGED <<intentVars, searchVars, store_op, githubVars, chatVars,
                   formatVars, entityVars>>

\* C26: if ingest_kubernetes_data returns success = false, the vector store
\* holds exactly the documents it held before the call: no batch written by
\* the failed run remains.
C26_FailedIngestionLeavesStoreUnchanged ==
    [][ (/\ pipeline.op = "none"
         /\ pipeline'.op = "ingest_kubernetes_data"
         /\ pipeline'.result.success = FALSE) =>
            collection' = collection ]_vars

----------------------------------------------------------------------------
(* The GitHub adders: SimpleGitHubAdder and the demo's add_github_repository *)

text_extensions ==
    { <<".","p","y">>,
      <<".","j","s">>,
      <<".","t","s">>,
      <<".","j","s","x">>,
      <<".","t","s","x">>,
      <<".","j","a","v","a">>,
      <<".","c","p","p">>,
      <<".","c">>,
      <<".","h">>,
      <<".","h","p","p">>,
      <<".","c","s">>,
      <<".","g","o">>,
      <<".","r","s">>,
      <<".","p","h","p">>,
      <<".","r","b">>,
      <<".","s","w","i","f","t">>,
      <<".","k","t">>,
      <<".","s","c","a","l","a">>,
      <<".","c","l","j">>,
      <<".","m","d">>,
      <<".","t","x","t">>,
      <<".","y","m","l">>,
      <<".","y","a","m","l">>,
      <<".","j","s","o","n">>,
      <<".","x","m","l">>,
      <<".","h","t","m","l">>,
      <<".","c","s","s">>,
      <<".","s","c","s","s">>,
      <<".","s","q","l">>,
      <<".","s","h">>,
      <<".","b","a","s","h">>,
      <<".","d","o","c","k","e","r","f","i","l","e">>,
      <<".","g","i","t","i","g","n","o","r","e">>,
      <<".","e","n","v",".","e","x","a","m","p","l","e">>,
      <<".","t","o","m","l">>,
      <<".","i","n","i">>,
      <<".","c","f","g">>,
      <<".","c","o","n","f">>,
      <<".","l","o","c","k">> }

text_filenames ==
    { <<"R","E","A","D","M","E">>,
      <<"L","I","C","E","N","S","E">>,
      <<"C","H","A","N","G","E","L","O","G">>,
      <<"C","O","N","T","R","I","B","U","T","I","N","G">>,
      <<"D","o","c","k","e","r","f","i","l","e">>,
      <<"M","a","k","e","f","i","l","e">>,
      <<"r","e","q","u","i","r","e","m","e","n","t","s",".","t","x","t">>,
      <<"p","a","c","k","a","g","e",".","j","s","o","n">>,
      <<"C","a","r","g","o",".","t","o","m","l">> }

demo_text_extensions ==
    { <<".","p","y">>,
      <<".","j","s">>,
      <<".","m","d">>,
      <<".","t","x","t">>,
      <<".","y","m","l">>,
      <<".","y","a","m","l">>,
      <<".","j","s","o","n">>,
      <<".","t","o","m","l">> }

\* The position of the last occurrence of c in s, 0 when there is none.
LastIndexOf(c, s) ==
    LET at == {i \in 1..Len(s) : s[i] = c}
    IN  IF at = {} THEN 0 ELSE CHOOSE i \in at : \A j \in at : j <= i

\* Path(p).name: what follows the last "/".
PathName(p) == SubSeq(p, LastIndexOf("/", p) + 1, Len(p))

\* Path(p).suffix: the name from its last "." on, empty when the name has
\* none, starts with its only one or ends with it.
PathSuffix(p) ==
    LET name == PathName(p)
        dot == LastIndexOf(".", name)
    IN  IF dot > 1 /\ dot < Len(name) THEN SubSeq(name, dot, Len(name)) ELSE <<>>

\* s.replace('/', '_')
ReplaceSlash(s) == [i \in 1..Len(s) |-> IF s[i] = "/" THEN "_" ELSE s[i]]

Whitespace == {" ", "\n", "\t"}

\* content.strip() is empty: only white space.
IsBlank(s) == \A i \in 1..Len(s) : s[i] \in Whitespace

\* _is_text_file of SimpleGitHubAdder.
IsTextFile(path) ==
    \/ Lower(PathSuffix(path)) \in text_extensions
    \/ PathName(path) \in text_filenames

\* The filter of the demo: the extension alone, a shorter list.
DemoIsTextFile(path) == Lower(PathSuffix(path)) \in demo_text_extensions

GithubIdPrefix == <<"g","i","t","h","u","b","_">>

\* f"github_{repo_name.replace('/', '_')}_{file_path.replace('/', '_')}"
GithubDocId(repo_name, file_path) ==
    GithubIdPrefix \o ReplaceSlash(repo_name) \o <<"_">> \o ReplaceSlash(file_path)

\* f"File: {file_path}\nRepository: {repo_name}\n\n{content}"
GithubDocumentText(repo_name, file_path, content) ==
    << <<"File", file_path>>, <<"Repository", repo_name>>, <<"", content>> >>

\* `x or ''` of a value of the repository data.
OrEmpty(x) == IF Truthy(x) THEN x ELSE <<>>

GithubUrl(repo_name, branch, file_path) ==
    <<"h","t","t","p","s",":","/","/","g","i","t","h","u","b",".","c","o","m","/">>
        \o repo_name \o <<"/","b","l","o","b","/">> \o branch \o <<"/">> \o file_path

\* The metadata SimpleGitHubAdder writes: repo_stars is an int.
SimpleMetadata(repo_name, repo_data, branch, file_path) ==
    [source |-> Github,
     repo_name |-> Str(repo_name),
     file_path |-> Str(file_path),
     file_name |-> Str(PathName(file_path)),
     file_extension |-> Str(PathSuffix(file_path)),
     repo_description |-> Str(OrEmpty(repo_data.description)),
     repo_language |-> Str(OrEmpty(repo_data.language)),
     repo_stars |-> PyInt(repo_data.stargazers_count),
     url |-> GithubUrl(repo_name, branch, file_path)]

\* The metadata the demo writes.
DemoMetadata(repo_name, repo_data, branch, file_path) ==
    [source |-> Github,
     repo_name |-> Str(repo_name),
     file_path |-> Str(file_path),
     file_name |-> Str(PathName(file_path)),
     file_extension |-> Str(PathSuffix(file_path)),
     repo_description |-> Str(OrEmpty(repo_data.description)),
     url |-> GithubUrl(repo_name, branch, file_path)]

\* The files cap of the demo, text_files[:20].
DemoMaxFiles == 20

\* The blobs of the tree that pass the text filter, in tree order.
RECURSIVE TextFiles(_, _)
TextFiles(tree, demo) ==
    IF tree = <<>> THEN <<>>
    ELSE LET item == Head(tree)
             keep == /\ item.type = "blob"
                     /\ IF demo THEN DemoIsTextFile(item.path) ELSE IsTextFile(item.path)
         IN  (IF keep THEN <<item>> ELSE <<>>) \o TextFiles(Tail(tree), demo)

\* The loop over the first max_files text files: a file whose fetch raises
\* is skipped, as is one that is not base64 or blank; the others give a
\* record each.  failing is the set of positions whose fetch raises.
RECURSIVE GithubRecords(_, _, _, _, _, _, _)
GithubRecords(i, files, failing, repo_name, repo_data, branch, demo) ==
    IF i > Len(files) THEN <<>>
    ELSE LET item == files[i]
             text == GithubDocumentText(repo_name, item.path, item.content)
             rec == [id |-> GithubDocId(repo_name, item.path),
                     document |-> text,
                     embedding |-> GenerateEmbedding(text),
                     metadata |-> IF demo
                                  THEN DemoMetadata(repo_name, repo_data, branch, item.path)
                                  ELSE SimpleMetadata(repo_name, repo_data, branch,
                                                      item.path)]
             skip == i \in failing \/ item.encoding # "base64" \/ IsBlank(item.content)
         IN  (IF skip THEN <<>> ELSE <<rec>>)
             \o GithubRecords(i + 1, files, failing, repo_name, repo_data, branch, demo)

\* The faults of the two requests made before any file is fetched.
RequestFaults == {"repo", "tree"}

\* add_repository_to_knowledge_base(max_files): the repository data and the
\* tree fetched, the text files processed, the records embedded together
\* and added in one collection.add.  fault names what raises: "repo" or
\* "tree" (the two first requests), "embed", "store", or "none"; failing the
\* positions of the files whose fetch raises.  Any exception but a file's
\* gives {"error": ...}; a count that cannot be read counts as 0.
add_repository_to_knowledge_base(coll, repo, repo_data, tree, max_files, failing, fault) ==
    LET files == SubSeq(TextFiles(tree, FALSE), 1,
                        Min(max_files, Len(TextFiles(tree, FALSE))))
        records == GithubRecords(1, files, failing, repo, repo_data,
                                 repo_data.default_branch, FALSE)
        added == CollectionAdd(coll, records, fault # "store")
    IN  IF fault \in RequestFaults
        THEN [collection |-> coll, ids |-> <<>>, result |-> [error |-> fault]]
        ELSE IF records # <<>> /\ (fault = "embed" \/ added.raised)
        THEN [collection |-> coll, ids |-> Ids(records), result |-> [error |-> "add"]]
        ELSE LET after == IF records # <<>> THEN added.collection ELSE coll
             IN  [collection |-> after,
                  ids |-> Ids(records),
                  result |-> [repo_name |-> repo,
                              documents_processed |-> Len(records),
                              total_documents |-> IF fault = "store" THEN 0
                                                  ELSE Count(after)]]

\* add_github_repository of the demo: the same with its own filter, cap and
\* metadata; True when documents were added, False otherwise.
add_github_repository(coll, repo_name, repo_data, tree, failing, fault) ==
    LET files == SubSeq(TextFiles(tree, TRUE), 1,
                        Min(DemoMaxFiles, Len(TextFiles(tree, TRUE))))
        records == GithubRecords(1, files, failing, repo_name, repo_data,
                                 repo_data.default_branch, TRUE)
        added == CollectionAdd(coll, records, fault # "store")
    IN  IF fault \in RequestFaults
        THEN [collection |-> coll, ids |-> <<>>, result |-> FALSE]
        ELSE IF records # <<>> /\ (fault = "embed" \/ added.raised)
        THEN [collection |-> coll, ids |-> Ids(records), result |-> FALSE]
        ELSE IF records # <<>>
        THEN [collection |-> added.collection, ids |-> Ids(records), result |-> TRUE]
        ELSE [collection |-> coll, ids |-> <<>>, result |-> FALSE]

----------------------------------------------------------------------------
(* Inputs of the GitHub adders *)

RepoData ==
    [full_name |-> RepoName, description |-> None, language |-> LangPython,
     stargazers_count |-> 3, default_branch |-> <<"m","a","i","n">>]

Blob(path, content) ==
    [type |-> "blob", path |-> path, encoding |-> "base64", content |-> content]

FileDF == Blob(<<"d","/","f",".","p","y">>, <<"x","=","1">>)
FileD_F == Blob(<<"d","_","f",".","p","y">>, <<"y","=","2">>)
FileReadme == Blob(<<"R","E","A","D","M","E">>, <<"h","i">>)
FileBlank == Blob(<<"e",".","m","d">>, <<" ","\n">>)
FileBinary == Blob(<<"i",".","P","N","G">>, <<"b">>)
DirD == [type |-> "tree", path |-> <<"d">>, encoding |-> "none", content |-> <<>>]

\* The trees the API may serve for the repository.
Trees ==
    { <<>>,
      <<DirD, FileDF, FileBinary>>,
      <<FileReadme, FileBlank>>,
      <<FileDF, FileD_F>> }

GithubFaults == {"none", "tree", "embed", "store"}
FailingSets == {{}, {1}}
MaxFilesArgs == {1, 30}

----------------------------------------------------------------------------
(* The GitHub adders as a state machine: one run per step *)

InitGithub ==
    gh_run = [op |-> "none"]

AddRepositoryToKnowledgeBase ==
    \E tree \in Trees, max_files \in MaxFilesArgs,
       failing \in FailingSets, fault \in GithubFaults :
        LET r == add_repository_to_knowledge_base(collection, RepoName, RepoData,
                                                  tree, max_files, failing, fault)
        IN  /\ Count(collection) + Len(r.ids) <= MaxDocs
            /\ collection' = r.collection
            /\ gh_run' = [op |-> "add_repository_to_knowledge_base",
                          repo_name |-> RepoName, tree |-> tree,
                          max_files |-> max_files, failing |-> failing,
                          fault |-> fault, ids |-> r.ids, result |-> r.result,
                          count_before |-> Count(collection)]
            /\ UNCHANGED <<intentVars, searchVars, ingestVars, chatVars, store_op,
                 formatVars, entityVars, pipelineVars>>

AddGithubRepository ==
    \E tree \in Trees, failing \in FailingSets, fault \in GithubFaults :
        LET r == add_github_repository(collection, RepoName, RepoData, tree,
                                       failing, fault)
        IN  /\ Count(collection) + Len(r.ids) <= MaxDocs
            /\ collection' = r.collection
            /\ gh_run' = [op |-> "add_github_repository",
                          repo_name |-> RepoName, tree |-> tree,
                          max_files |-> DemoMaxFiles, failing |-> failing,
                          fault |-> fault, ids |-> r.ids, result |-> r.result,
                          count_before |-> Count(collection)]
            /\ UNCHANGED <<intentVars, searchVars, ingestVars, chatVars, store_op,
                 formatVars, entityVars, pipelineVars>>

----------------------------------------------------------------------------
(* Claims about the GitHub adders *)

\* The step is a run that stored documents, following a run of the same
\* adder on the same repository and tree that stored documents too, neither
\* with a failing request, embedding or store.
SameRepositoryAddedAgain ==
    /\ gh_run.op # "none" /\ gh_run'.op = gh_run.op
    /\ gh_run.fault = "none" /\ gh_run'.fault = "none"
    /\ gh_run.failing = {} /\ gh_run'.failing = {}
    /\ gh_run'.repo_name = gh_run.repo_name
    /\ gh_run'.tree = gh_run.tree
    /\ gh_run'.max_files = gh_run.max_files
    /\ gh_run.ids # <<>>

\* C7: re-ingesting the same GitHub repository creates new documents: the
\* ids of the second run differ from those of the first, none is kept from
\* colliding, and the second run's documents are added to the collection.
C7_ReingestedRepositoryGetsNewIds ==
    [][ SameRepositoryAddedAgain =>
            /\ Range(gh_run'.ids) \cap Range(gh_run.ids) = {}
            /\ Count(collection') = Count(collection) + Len(gh_run'.ids) ]_vars

\* The first elements of the values that are not strings: None and the ints.
NotCharacters == {"<None>", "<int>"}

\* isinstance(v, str)
IsString(v) == \A i \in 1..Len(v) : v[i] \notin NotCharacters

\* C21: every metadata value persisted with a document is a string: in each
\* ingestion path the values that are not strings are converted before the
\* document is added to the store.
C21_MetadataValuesAreStrings ==
    \A d \in collection : \A k \in DOMAIN d.metadata : IsString(d.metadata[k])

\* C28: every metadata key search_github can filter on (source, repo_name,
\* language) is written on every document the GitHub ingestion paths
\* store, so that a search_github filtered by the repository and the
\* language of an ingested file can return that file.
C28_GithubFilterKeysAreWritten ==
    \A d \in collection :
        /\ AllGithubKeys \subseteq DOMAIN d.metadata
        /\ Matches(GithubFilters(RepoName, RepoData.language), d.metadata)

\* The paths of the files of a run whose records reach the store, in order
\* of their ids: the text files within the cap but those skipped.
PathsOfRun(run) ==
    LET demo == run.op = "add_github_repository"
        text_files == TextFiles(run.tree, demo)
        files == SubSeq(text_files, 1, Min(run.max_files, Len(text_files)))
        Stored(i) == /\ i \notin run.failing
                     /\ files[i].encoding = "base64"
                     /\ ~IsBlank(files[i].content)
        kept == SelectSeq([i \in 1..Len(files) |-> i], Stored)
    IN  [j \in 1..Len(kept) |-> files[kept[j]].path]

\* C29: in the GitHub ingestion paths two files with different
\* (repo_name, file_path) pairs never receive the same document id: the
\* list of ids of one batch handed to the store holds no id twice.
C29_BatchIdsAreDistinct ==
    (gh_run.op # "none" /\ gh_run.fault \notin RequestFaults) =>
        LET paths == PathsOfRun(gh_run)
        IN  /\ Len(paths) = Len(gh_run.ids)
            /\ \A i, j \in 1..Len(gh_run.ids) :
                   paths[i] # paths[j] => gh_run.ids[i] # gh_run.ids[j]

----------------------------------------------------------------------------
(* SearchAgent.format_search_results *)

Upper(s) == [i \in 1..Len(s) |-> UpperChar(s[i])]

UnknownName == <<"U","n","k","n","o","w","n">>

\* The length after which a content preview is cut.
PreviewLimit == 200

\* f"{similarity:.3f}": the thousandths nearest to a number of
\* ten-thousandths, a tie going to the even one.
Format3f(x) ==
    LET q == x \div 10
        r == x % 10
    IN  IF r > 5 \/ (r = 5 /\ q % 2 = 1) THEN q + 1 ELSE q

\* A preview cut with >= in place of >: a content of exactly 200 characters
\* gets the dots as well.
Preview_CutInclusive(content) ==
    IF Len(content) >= PreviewLimit
    THEN SubSeq(content, 1, PreviewLimit) \o <<".", ".", ".">>
    ELSE content

\* content[:200] + "..." if len(content) > 200 else content
Preview(content) ==
    IF Len(content) > PreviewLimit
    THEN SubSeq(content, 1, PreviewLimit) \o <<".", ".", ".">>
    ELSE content

\* Kubernetes lines without the test of the sentinel: a Namespace line for
\* every result.
KubernetesLines_AlwaysNamespace(metadata) ==
    << [line |-> "Kind", value |-> DictGetOr(metadata, "kind", UnknownName)],
       [line |-> "Namespace",
        value |-> DictGetOr(metadata, "namespace", UnknownName)] >>

\* The lines of a Kubernetes result: its kind, and its namespace unless it
\* is the cluster-wide one.
KubernetesLines(metadata) ==
    <<[line |-> "Kind", value |-> DictGetOr(metadata, "kind", UnknownName)]>>
    \o (IF DictGet(metadata, "namespace") # ClusterWide
        THEN <<[line |-> "Namespace",
                value |-> DictGetOr(metadata, "namespace", UnknownName)]>>
        ELSE <<>>)

\* The lines of result number i.
FormatResult(i, result, show_content) ==
    LET metadata == result.metadata
        source == DictGet(metadata, "source")
        header == [line |-> "header", index |-> i,
                   source |-> Upper(DictGetOr(metadata, "source", Unknown)),
                   name |-> DictGetOr(metadata, "name", UnknownName),
                   similarity |-> Format3f(result.similarity)]
        k8s == KubernetesLines(metadata)
        gh == (IF Truthy(DictGet(metadata, "repo_name"))
               THEN <<[line |-> "Repository", value |-> metadata["repo_name"]]>>
               ELSE <<>>)
              \o (IF Truthy(DictGet(metadata, "language"))
                  THEN <<[line |-> "Language", value |-> metadata["language"]]>>
                  ELSE <<>>)
        specific == IF source = Kubernetes THEN k8s
                    ELSE IF source = Github THEN gh ELSE <<>>
        content == IF show_content
                   THEN <<[line |-> "Content", value |-> Preview(result.document)]>>
                   ELSE <<>>
    IN  <<header>> \o specific \o content \o <<[line |-> ""]>>

RECURSIVE FormatFrom(_, _, _)
FormatFrom(i, results, show_content) ==
    IF i > Len(results) THEN <<>>
    ELSE FormatResult(i, results[i], show_content)
         \o FormatFrom(i + 1, results, show_content)

\* format_search_results: the text as the list of its lines.
format_search_results(results, show_content) ==
    IF results = <<>> THEN <<[line |-> "No results found."]>>
    ELSE FormatFrom(1, results, show_content)

----------------------------------------------------------------------------
(* Bounds and inputs of the formatter *)

\* format_search_results is given at most MaxFormatted results.
MaxFormatted == 2

\* The length of the long document of the tests.
LongDocument == 300

\* A document of n characters, no two neighbours alike.
DocChars == <<"a", "b", "c">>
Doc(n) == [i \in 1..n |-> DocChars[(i % 3) + 1]]

\* Documents around the preview limit: empty, just at the limit, one beyond
\* it, and the long one.
DocLengths == {0, PreviewLimit, PreviewLimit + 1, LongDocument}

\* A Kubernetes result whose metadata has neither kind nor namespace.
HitBare == [source |-> Kubernetes, name |-> <<"b">>]

FormatMetadatas == {1, 2, 3, 4, 5}
FormatMetadata(m) ==
    CASE m = 1 -> HitPod
      [] m = 2 -> HitNamespace
      [] m = 3 -> HitFile
      [] m = 4 -> HitOther
      [] OTHER -> HitBare

\* One result as the formatter receives it.
FormatHit(m, n) ==
    [document |-> Doc(n), metadata |-> FormatMetadata(m),
     distance |-> 2000, similarity |-> 8000]

FormatHits == {FormatHit(m, n) : m \in FormatMetadatas, n \in DocLengths}

----------------------------------------------------------------------------
(* The formatter as a state machine: the results and show_content are the *)
(* input, the step is the call on them                                      *)

NotFormatted == [op |-> "none", results |-> <<>>, show_content |-> FALSE, text |-> <<>>]

InitFormat ==
    formatted = NotFormatted

\* The caller holds any list of at most MaxFormatted results.
InitFormatInputs ==
    \E k \in 0..MaxFormatted, show_content \in BOOLEAN :
      \E results \in [1..k -> FormatHits] :
        formatted = [NotFormatted EXCEPT !.results = results,
                                         !.show_content = show_content]

FormatSearchResults ==
    /\ formatted' =
            [formatted EXCEPT
                !.op = "format_search_results",
                !.text = format_search_results(formatted.results,
                                               formatted.show_content)]
    /\ UNCHANGED <<intentVars, searchVars, storeVars, ingestVars, githubVars,
                   chatVars, entityVars, pipelineVars>>

----------------------------------------------------------------------------
(* Claims about the formatter *)

\* format_search_results was called on at least one result.
Formatted == formatted.op = "format_search_results" /\ formatted.results # <<>>

\* The position in the text of the header of result i.
HeaderAt(i) ==
    CHOOSE p \in 1..Len(formatted.text) :
        formatted.text[p].line = "header" /\ formatted.text[p].index = i

\* The lines of result i below its header: those up to the empty line that
\* ends the result.
RECURSIVE LinesFrom(_)
LinesFrom(p) ==
    IF p > Len(formatted.text) \/ formatted.text[p].line = "" THEN <<>>
    ELSE <<formatted.text[p]>> \o LinesFrom(p + 1)

LinesOf(i) == LinesFrom(HeaderAt(i) + 1)

\* The values of the lines of result i that carry a label.
Labelled(i, label) ==
    LET ls == LinesOf(i)
    IN  {ls[j].value : j \in {x \in 1..Len(ls) : ls[x].line = label}}

CountLabelled(i, label) ==
    LET ls == LinesOf(i)
    IN  Cardinality({x \in 1..Len(ls) : ls[x].line = label})

\* C17: every Kubernetes result gets a Kind line; it gets a Namespace line
\* when its namespace is not "cluster-wide" ("default" for one) and none
\* when it is "cluster-wide".
C17_NamespaceLineUnlessClusterWide ==
    Formatted =>
        \A i \in 1..Len(formatted.results) :
            LET metadata == formatted.results[i].metadata
            IN  DictGet(metadata, "source") = Kubernetes =>
                    /\ CountLabelled(i, "Kind") = 1
                    /\ DictGet(metadata, "namespace") = ClusterWide
                            => CountLabelled(i, "Namespace") = 0
                    /\ DictGet(metadata, "namespace") # ClusterWide
                            => CountLabelled(i, "Namespace") = 1
                    /\ DictGet(metadata, "namespace") = NsDefault
                            => Labelled(i, "Namespace") = {NsDefault}

\* C17 witness: a cluster-wide result and one of namespace default were
\* formatted in one call.
C17_Witness ==
    /\ Formatted
    /\ Len(formatted.results) = 2
    /\ formatted.results[1].metadata = HitNamespace
    /\ formatted.results[2].metadata = HitPod
    /\ CountLabelled(1, "Namespace") = 0
    /\ CountLabelled(2, "Namespace") = 1

\* The first n characters of s.
Prefix(s, n) == [j \in 1..n |-> s[j]]

\* C18: with show_content every result gets one Content line: the first 200
\* characters of the document followed by "..." when the document is longer
\* than 200 characters, the whole document when it is not; without
\* show_content no result gets a Content line.
C18_ContentPreviewCutAtLimit ==
    Formatted =>
        \A i \in 1..Len(formatted.results) :
            LET document == formatted.results[i].document
            IN  IF formatted.show_content
                THEN /\ CountLabelled(i, "Content") = 1
                     /\ \A v \in Labelled(i, "Content") :
                            IF Len(document) > 200
                            THEN /\ Len(v) = 203
                                 /\ Prefix(v, 200) = Prefix(document, 200)
                                 /\ SubSeq(v, 201, 203) = <<".", ".", ".">>
                            ELSE v = document
                ELSE CountLabelled(i, "Content") = 0

\* C18 witness: a document of 300 characters was formatted with its content.
C18_Witness ==
    /\ Formatted
    /\ formatted.show_content
    /\ Len(formatted.results[1].document) = LongDocument
    /\ \E v \in Labelled(1, "Content") : Len(v) = PreviewLimit + 3

----------------------------------------------------------------------------
(* KubernetesChat: initialize, search_knowledge_base, get_ai_response,       *)
(* handle_query                                                              *)

NoAgent == [agent |-> FALSE]
CoreAgent == [agent |-> TRUE, model |-> "anthropic/claude-3.5-sonnet"]

\* create_core_agent: RuntimeError without an OPENROUTER_API_KEY.
NoKey == [raised |-> TRUE, agent |-> NoAgent]
AgentMade == [raised |-> FALSE, agent |-> CoreAgent]

create_core_agent(api_key) ==
    IF api_key = <<>> THEN NoKey ELSE AgentMade

\* The agent initialize() leaves: none when it cannot be created or when
\* its test call raises.
InitializedAgent(api_key, test_call) ==
    LET made == create_core_agent(api_key)
    IN  IF made.raised \/ test_call = "raises" THEN NoAgent ELSE made.agent

\* The max_results of the searches of the chat.
ChatMaxResults == 10
\* The results the fallback answers format, results[:3].
FallbackResults == 3
\* The results the system prompt lists, results[:5].
PromptResults == 5

Take(s, n) == SubSeq(s, 1, Min(n, Len(s)))

\* search_knowledge_base: the search chosen by the detected intents and
\* its arguments.
search_knowledge_base(q) ==
    LET a == analyze_query_intent(q)
    IN  IF Kubernetes \in Range(a.detected_intents)
        THEN [op |-> "search_kubernetes", query |-> q,
              max_results |-> ChatMaxResults,
              resource_kind |-> DictGet(a.suggested_filters, "kind"),
              namespace |-> DictGet(a.suggested_filters, "namespace")]
        ELSE [op |-> "search", query |-> q, max_results |-> ChatMaxResults,
              source_filter |-> None, additional_filters |-> NoneDict]

\* The filters the chosen search hands the store.
RequestFilters(req) ==
    IF req.op = "search_kubernetes"
    THEN KubernetesFilters(req.resource_kind, req.namespace)
    ELSE LET filters == SearchFilters(req.source_filter, req.additional_filters)
         IN  IF DictTruthy(filters) THEN filters ELSE NoneDict

\* ... and the response it builds of the store's results.
RequestResponse(req, results) ==
    IF req.op = "search_kubernetes"
    THEN KubernetesResponse(req.query, req.resource_kind, req.namespace, results)
    ELSE SearchResponse(req.query,
                        SearchFilters(req.source_filter, req.additional_filters),
                        results)

\* create_system_prompt: the context lines of the first five results.
create_system_prompt(search_results) ==
    LET shown == Take(search_results.results, PromptResults)
    IN  [context |->
            [i \in 1..Len(shown) |->
                LET metadata == shown[i].metadata
                    source == DictGetOr(metadata, "source", Unknown)
                IN  IF source = Kubernetes
                    THEN [index |-> i, tag |-> "KUBERNETES",
                          kind |-> DictGetOr(metadata, "kind", UnknownName),
                          name |-> DictGetOr(metadata, "name", UnknownName),
                          namespace |-> DictGetOr(metadata, "namespace", NsDefault)]
                    ELSE IF source = Github
                    THEN [index |-> i, tag |-> "GITHUB",
                          file_path |-> DictGetOr(metadata, "file_path", UnknownName),
                          repo_name |-> DictGetOr(metadata, "repo_name", UnknownName)]
                    ELSE [index |-> i, tag |-> "UNKNOWN", metadata |-> metadata]]]

FoundInCluster == "Here's what I found in your cluster:"
FoundAiUnavailable == "Here's what I found (AI unavailable):"
NothingFound == "I couldn't find any relevant resources for your query."
AiFailed == "AI response failed: "

AnswerNothingFound == [raised |-> FALSE, response |-> <<[line |-> NothingFound]>>]
AnswerAiFailed ==
    [raised |-> FALSE, response |-> <<[line |-> AiFailed, error |-> "llm"]>>]
AnswerRaised == [raised |-> TRUE, response |-> <<>>]
FallbackHeadings == {FoundInCluster, FoundAiUnavailable}

\* A get_ai_response that lets the failure of the LLM call out.
get_ai_response_Raising(agent, user_query, search_results, llm) ==
    IF agent = NoAgent
    THEN IF search_results.results # <<>>
         THEN [raised |-> FALSE,
               response |-> <<[line |-> FoundInCluster], [line |-> ""]>>
                   \o format_search_results(
                          Take(search_results.results, FallbackResults), FALSE)]
         ELSE AnswerNothingFound
    ELSE IF llm = "answers"
         THEN [raised |-> FALSE,
               response |-> <<[line |-> "llm",
                               prompt |-> create_system_prompt(search_results),
                               user |-> user_query]>>]
         ELSE AnswerRaised

\* get_ai_response: without an agent, the formatted first three results or
\* the nothing-found message; with one, its answer to the prompt, and when
\* its call raises the formatted first three results or the failure
\* message.  llm is what the call does, "answers" or "raises".
get_ai_response(agent, user_query, search_results, llm) ==
    IF agent = NoAgent
    THEN IF search_results.results # <<>>
         THEN [raised |-> FALSE,
               response |-> <<[line |-> FoundInCluster], [line |-> ""]>>
                   \o format_search_results(
                          Take(search_results.results, FallbackResults), FALSE)]
         ELSE AnswerNothingFound
    ELSE IF llm = "answers"
         THEN [raised |-> FALSE,
               response |-> <<[line |-> "llm",
                               prompt |-> create_system_prompt(search_results),
                               user |-> user_query]>>]
         ELSE IF search_results.results # <<>>
         THEN [raised |-> FALSE,
               response |-> <<[line |-> FoundAiUnavailable], [line |-> ""]>>
                   \o format_search_results(
                          Take(search_results.results, FallbackResults), FALSE)]
         ELSE AnswerAiFailed

----------------------------------------------------------------------------
(* Bounds and inputs of the chat *)

\* handle_query is called while the history has fewer than MaxHistory entries.
MaxHistory == 2

ChatQueries == { <<"p","o","d","s">>, <<"h","e","l","p">> }
\* The answers of the store to the searches of the chat: none, one, or more
\* than the fallback formats.
ChatAnswerLengths == {0, 1, MaxHits}
ChatAnswers(n) == {r \in StoreAnswers(n) : Len(r) \in ChatAnswerLengths}
ApiKeys == { <<>>, <<"k">> }
LlmOutcomes == {"answers", "raises"}

----------------------------------------------------------------------------
(* The chat as a state machine: one call per step *)

\* run_interactive has not been called.
NoLoop == [state |-> "not started", typed |-> <<>>, command |-> "none",
           outcome |-> "none"]

InitChat ==
    /\ ai_agent = NoAgent
    /\ conversation_history = <<>>
    /\ chat = [op |-> "none"]
    /\ repl = NoLoop

\* initialize(): the store and the search agent made, the LLM agent made
\* and tried, and the knowledge base checked for documents.
Initialize(api_key, test_call) ==
    /\ ai_agent' = InitializedAgent(api_key, test_call)
    /\ chat' = [op |-> "initialize", api_key |-> api_key,
                test_call |-> test_call, ready |-> Count(collection) > 0]
    /\ UNCHANGED <<intentVars, searchVars, storeVars, ingestVars, githubVars,
                   conversation_history, formatVars, entityVars, pipelineVars>>

InitializeChat ==
    \E api_key \in ApiKeys, test_call \in LlmOutcomes :
        /\ Initialize(api_key, test_call)
        /\ UNCHANGED repl

\* handle_query(user_input), once initialize() has made the search agent:
\* the search, the answer, the exchange appended to the history.  An
\* exception of the search leaves handle_query at once.
HandleQueryOn(user_input, store_up, llm) ==
    LET req == search_knowledge_base(user_input)
        call == StoreCall(user_input, req.max_results, RequestFilters(req))
    IN  /\ chat.op # "none"
        /\ Len(conversation_history) < MaxHistory
        /\ query' = user_input
        /\ intent' = analyze_query_intent(user_input)
        /\ request' = req
        /\ store_calls' = <<call>>
        /\ IF ~store_up
           THEN /\ chat' = [op |-> "handle_query", user_input |-> user_input,
                            raised |-> TRUE, llm |-> "not called"]
                /\ UNCHANGED <<response, conversation_history>>
           ELSE \E results \in ChatAnswers(req.max_results) :
                    LET search_results == RequestResponse(req, results)
                        called == IF ai_agent = NoAgent THEN "not called" ELSE llm
                        answer == get_ai_response(ai_agent, user_input,
                                                  search_results, llm)
                    IN  /\ response' = search_results
                        /\ chat' = [op |-> "handle_query",
                                    user_input |-> user_input,
                                    raised |-> answer.raised,
                                    llm |-> called,
                                    search_results |-> search_results,
                                    response |-> answer.response]
                        /\ conversation_history' =
                               IF answer.raised THEN conversation_history
                               ELSE Append(conversation_history,
                                        [user |-> user_input,
                                         assistant |-> answer.response,
                                         search_results_count |-> Len(results)])
        /\ UNCHANGED <<storeVars, ingestVars, githubVars, ai_agent,
                       formatVars, entityVars, pipelineVars>>

HandleQuery ==
    \E user_input \in ChatQueries, store_up \in BOOLEAN, llm \in LlmOutcomes :
        /\ HandleQueryOn(user_input, store_up, llm)
        /\ UNCHANGED repl

----------------------------------------------------------------------------
(* Claims about the chat *)

\* The last call was a handle_query.
Handled == chat.op = "handle_query"

\* ... whose search returned, with or without results.
SearchReturned == Handled /\ "search_results" \in DOMAIN chat

\* The LLM was not there to answer: no agent, or its call raised.
LlmFailed == chat.llm = "raises"
LlmUnavailable == ai_agent = NoAgent \/ LlmFailed

\* C9: when the LLM call raises and the search returned no results the
\* answer is the explicit nothing-found message, and no handle_query ends
\* in an exception, whether the search or the LLM failed.
C9_NothingFoundAndNoExceptionEscapes ==
    /\ Handled => ~chat.raised
    /\ (SearchReturned /\ LlmFailed /\ chat.search_results.results = <<>>)
           => chat.response = AnswerNothingFound.response

\* C10: when there is no agent or its call raises, and the search returned
\* at least one result, handle_query does not raise and the answer is a
\* heading followed by format_search_results of the first three results.
C10_FallbackFormatsLeadingResults ==
    (SearchReturned /\ LlmUnavailable /\ chat.search_results.results # <<>>)
        => /\ ~chat.raised
           /\ Len(chat.response) > 2
           /\ chat.response[1].line \in FallbackHeadings
           /\ SubSeq(chat.response, 3, Len(chat.response))
                  = format_search_results(
                        Take(chat.search_results.results, FallbackResults), FALSE)

\* The LLM call raised on a search of four results, more than are formatted.
C10_Witness ==
    /\ SearchReturned /\ ai_agent # NoAgent /\ LlmFailed
    /\ Len(chat.search_results.results) > FallbackResults
    /\ chat.response[1].line = FoundAiUnavailable

----------------------------------------------------------------------------
(* KubernetesChat.run_interactive: the loop of the chat *)

\* str.strip(): the text between the first and the last character that is
\* not whitespace.
Strip(s) ==
    LET inked == {i \in 1..Len(s) : s[i] \notin Whitespace}
        first == CHOOSE i \in inked : \A j \in inked : i <= j
        last == CHOOSE i \in inked : \A j \in inked : j <= i
    IN  IF inked = {} THEN <<>> ELSE SubSeq(s, first, last)

SlashQuit == <<"/","q","u","i","t">>
SlashExit == <<"/","e","x","i","t">>
SlashHelp == <<"/","h","e","l","p">>
SlashStats == <<"/","s","t","a","t","s">>
SlashHistory == <<"/","h","i","s","t","o","r","y">>
SlashClear == <<"/","c","l","e","a","r">>
SlashDemo == <<"/","d","e","m","o">>
LeavingCommands == {SlashQuit, SlashExit}

\* The branch the loop takes on the stripped input: the commands are
\* compared in lower case, anything else is a regular query.
Command(user_input) ==
    IF user_input = <<>> THEN "empty"
    ELSE IF Lower(user_input) \in LeavingCommands THEN "quit"
    ELSE IF Lower(user_input) = SlashHelp THEN "help"
    ELSE IF Lower(user_input) = SlashStats THEN "stats"
    ELSE IF Lower(user_input) = SlashHistory THEN "history"
    ELSE IF Lower(user_input) = SlashClear THEN "clear"
    ELSE IF Lower(user_input) = SlashDemo THEN "demo"
    ELSE "query"

\* How a turn of the loop ends: "continue" (the next turn), "break", a
\* "KeyboardInterrupt" or an "Exception" caught by the loop.
Breaking == {"break", "KeyboardInterrupt"}

\* A loop that any exception ends.
LoopAfter_ExceptionEnds(outcome) ==
    IF outcome = "continue" THEN "running" ELSE "ended"

\* The loop after a turn: ended by a break or a keyboard interrupt, running
\* after anything else, an exception included.
LoopAfter(outcome) ==
    IF outcome \in Breaking THEN "ended" ELSE "running"

\* The lines typed at the prompt.
ReplInputs ==
    { <<>>, <<" ">>, SlashQuit, <<"/","E","X","I","T">>, SlashHelp, SlashStats, SlashHistory,
      SlashClear, <<" ","/","C","l","e","a","r"," ">>, SlashDemo,
      <<" ","p","o","d","s"," ">> }

\* Where Control-C arrives, if it does: at the prompt or while the input is
\* handled.
Interrupts == {"none", "input", "handling"}

\* run_interactive(), up to the loop: initialize(), and the loop entered
\* when the knowledge base has documents.
RunInteractive ==
    \E api_key \in ApiKeys, test_call \in LlmOutcomes :
        /\ repl.state = "not started"
        /\ Initialize(api_key, test_call)
        /\ repl' = [NoLoop EXCEPT !.state = IF Count(collection) > 0
                                            THEN "running" ELSE "returned"]

\* The turn leaves everything but the loop as it is.
TurnKeepsChat ==
    UNCHANGED <<intentVars, searchVars, storeVars, ingestVars, githubVars,
                ai_agent, conversation_history, chat, formatVars, entityVars,
                pipelineVars>>

\* One turn of the loop: a line read and stripped, the branch of its
\* command taken.  store_up says whether the store answers (/stats and the
\* search of a query raise when it does not), llm what the LLM call does;
\* an interrupt at the prompt leaves nothing typed.
InteractiveTurn ==
    \E typed \in ReplInputs, interrupt \in Interrupts :
        LET user_input == Strip(typed)
            command == Command(user_input)
            Turn(outcome) == [state |-> LoopAfter(outcome), typed |-> typed,
                              command |-> command, outcome |-> outcome]
        IN  /\ repl.state = "running"
            /\ IF interrupt = "input"
               THEN /\ typed = <<>>
                    /\ repl' = [state |-> LoopAfter("KeyboardInterrupt"),
                                typed |-> <<>>, command |-> "none",
                                outcome |-> "KeyboardInterrupt"]
                    /\ TurnKeepsChat
               ELSE IF command = "empty"
               THEN repl' = Turn("continue") /\ TurnKeepsChat
               ELSE IF command = "quit"
               THEN repl' = Turn("break") /\ TurnKeepsChat
               ELSE IF interrupt = "handling"
               THEN repl' = Turn("KeyboardInterrupt") /\ TurnKeepsChat
               ELSE IF command = "stats"
               THEN /\ \E store_up \in BOOLEAN :
                           repl' = Turn(IF store_up THEN "continue" ELSE "Exception")
                    /\ TurnKeepsChat
               ELSE IF command = "clear"
               THEN /\ conversation_history' = <<>>
                    /\ repl' = Turn("continue")
                    /\ UNCHANGED <<intentVars, searchVars, storeVars, ingestVars,
                                   githubVars, ai_agent, chat, formatVars,
                                   entityVars, pipelineVars>>
               ELSE IF command = "query"
               THEN \E store_up \in BOOLEAN, llm \in LlmOutcomes :
                        /\ HandleQueryOn(user_input, store_up, llm)
                        /\ repl' = Turn(IF chat'.raised THEN "Exception"
                                        ELSE "continue")
               ELSE repl' = Turn("continue") /\ TurnKeepsChat

\* The knowledge bases the chat is started on: empty, or holding a Pod.
ChatCollections == { {}, add_entity({}, PodEntity, 0, TRUE, TRUE).collection }

InitChatInputs ==
    /\ collection \in ChatCollections
    /\ store_op = [op |-> "none"]

----------------------------------------------------------------------------
(* Claims about the loop of the chat *)

\* The text the last turn compared with the commands.
TypedCommand == Lower(Strip(repl'.typed))

\* The last turn was interrupted from the keyboard.
Interrupted == repl'.outcome = "KeyboardInterrupt"

\* The commands that leave the history alone.
QuietCommands == {<<>>, SlashHelp, SlashStats, SlashHistory, SlashDemo}
AllCommands == QuietCommands \cup LeavingCommands \cup {SlashClear}

\* The last turn handled a regular query to its end.
QueryCompleted ==
    /\ TypedCommand \notin AllCommands
    /\ repl'.outcome = "continue"

\* C30: in the loop of the chat the history grows by exactly one entry, the
\* user text, the response and the number of results, for each regular
\* query handle_query completes; /clear empties it; /help, /stats,
\* /history, /demo, an empty input and a query whose handling raises leave
\* it unchanged; and the loop ends only on /quit, /exit or a keyboard
\* interrupt, never on an exception.
C30_HistoryAndLoopOfTheChat ==
    [][ repl.state = "running" =>
          /\ QueryCompleted =>
                conversation_history' =
                    Append(conversation_history,
                           [user |-> Strip(repl'.typed),
                            assistant |-> chat'.response,
                            search_results_count |->
                                Len(chat'.search_results.results)])
          /\ (TypedCommand = SlashClear /\ ~Interrupted) =>
                conversation_history' = <<>>
          /\ (TypedCommand \in QuietCommands \/ repl'.outcome = "Exception") =>
                conversation_history' = conversation_history
          /\ repl'.outcome = "Exception" => repl'.state = "running"
          /\ repl'.state # "running" =>
                /\ repl'.state = "ended"
                /\ TypedCommand \in LeavingCommands \/ Interrupted ]_vars

\* The loop goes on after a query whose search raised, with the exchange of
\* an earlier query in the history.
C30_Witness ==
    /\ repl.state = "running"
    /\ repl.command = "query" /\ repl.outcome = "Exception"
    /\ Len(conversation_history) = 1

----------------------------------------------------------------------------
(* Specifications: one per component, each from the state after construction *)

Init ==
    /\ InitIntent
    /\ InitSearch
    /\ InitStore
    /\ InitIngest
    /\ InitGithub
    /\ InitChat
    /\ InitFormat
    /\ InitEntity
    /\ InitPipeline

\* The intent classifier, on any query.
InitAnyQuery ==
    /\ InitQueries
    /\ InitSearch
    /\ InitStore
    /\ InitIngest
    /\ InitGithub
    /\ InitChat
    /\ InitFormat
    /\ InitEntity
    /\ InitPipeline

NextIntent ==
    \/ AnalyzeQueryIntent

SpecIntent == InitAnyQuery /\ [][NextIntent]_vars

\* The filtered searches of SearchAgent.
NextSearch ==
    \/ Search
    \/ SearchKubernetes
    \/ SearchGithub

SpecSearch == Init /\ [][NextSearch]_vars

\* The vector store used directly.
NextStore ==
    \/ AddEntity
    \/ AddEntitiesBatch
    \/ StoreSearch
    \/ GetCollectionStats
    \/ ResetCollection

SpecStore == Init /\ [][NextStore]_vars

\* add_entities_batch, one call on any list.
InitAnyBatch ==
    /\ InitIntent
    /\ InitSearch
    /\ InitBatchInputs
    /\ InitIngest
    /\ InitGithub
    /\ InitChat
    /\ InitFormat
    /\ InitEntity
    /\ InitPipeline

NextBatch ==
    \/ AddEntitiesBatchOnInput

SpecBatch == InitAnyBatch /\ [][NextBatch]_vars

\* The Kubernetes ingestion into the store.
NextIngest ==
    \/ IngestKubernetesData
    \/ ResetCollection

SpecIngest == Init /\ [][NextIngest]_vars

\* The GitHub adders writing into the collection.
NextGithub ==
    \/ AddRepositoryToKnowledgeBase
    \/ AddGithubRepository
    \/ ResetCollection

SpecGithub == Init /\ [][NextGithub]_vars

\* The pipeline, one call on any cluster.
InitAnyPipeline ==
    /\ InitIntent
    /\ InitSearch
    /\ InitStore
    /\ InitIngest
    /\ InitGithub
    /\ InitChat
    /\ InitFormat
    /\ InitEntity
    /\ InitPipelineInputs

NextPipeline ==
    \/ PipelineIngestKubernetesData
    \/ IngestGithubRepo
    \/ RunFullIngestion
    \/ GetClusterSummary

SpecPipeline == InitAnyPipeline /\ [][NextPipeline]_vars

\* ingest_kubernetes_data with filters, one call on any cluster.
InitAnyFilters ==
    /\ InitIntent
    /\ InitSearch
    /\ InitStore
    /\ InitIngest
    /\ InitGithub
    /\ InitChat
    /\ InitFormat
    /\ InitEntity
    /\ InitFilterInputs

NextFiltered ==
    \/ PipelineIngestKubernetesData

SpecFiltered == InitAnyFilters /\ [][NextFiltered]_vars

\* ingest_kubernetes_data, one call on a cluster of about a hundred Pods.
InitAnyBulk ==
    /\ InitIntent
    /\ InitSearch
    /\ InitStore
    /\ InitIngest
    /\ InitGithub
    /\ InitChat
    /\ InitFormat
    /\ InitEntity
    /\ InitBulkInputs

NextBulk ==
    \/ BulkIngestKubernetesData

SpecBulk == InitAnyBulk /\ [][NextBulk]_vars

\* The entities made of the cluster's resources.
NextEntity ==
    \/ CreateEntity

SpecEntity == Init /\ [][NextEntity]_vars

NextFormat ==
    \/ FormatSearchResults

\* The result formatter, on any list of results.
InitAnyResults ==
    /\ InitIntent
    /\ InitSearch
    /\ InitStore
    /\ InitIngest
    /\ InitGithub
    /\ InitChat
    /\ InitFormatInputs
    /\ InitEntity
    /\ InitPipeline

SpecFormat == InitAnyResults /\ [][NextFormat]_vars

\* The chat front-end.
NextChat ==
    \/ InitializeChat
    \/ HandleQuery

SpecChat == Init /\ [][NextChat]_vars

\* The loop of the chat, on an empty or a filled knowledge base.
InitAnyChat ==
    /\ InitIntent
    /\ InitSearch
    /\ InitChatInputs
    /\ InitIngest
    /\ InitGithub
    /\ InitChat
    /\ InitFormat
    /\ InitEntity
    /\ InitPipeline

NextRepl ==
    \/ RunInteractive
    \/ InteractiveTurn

SpecRepl == InitAnyChat /\ [][NextRepl]_vars

====
